---- MODULE Spec2Model ----
(***************************************************************************)
(* Model of the content script of the shortcut-expansion extension         *)
(* (src/content.js, class ShortcutManager): trigger matching, expansion,   *)
(* the recursive-descent calculator, the commit (replaceShortcut) and the  *)
(* session held in currentMatch / previewElement.                          *)
(*                                                                         *)
(* Text is modelled by TLA+ strings, one character per UTF-16 unit of the  *)
(* page's text, except that an emoji code point is one character: "@" and  *)
(* "&" stand for two emoji code points, "~" for a skin-tone modifier and   *)
(* "^" for the zero-width joiner.                                          *)
(***************************************************************************)
EXTENDS Integers, Sequences, FiniteSets, TLC

(***************************************************************************)
(* Characters and strings                                                  *)
(***************************************************************************)
Ch(s, i) == SubSeq(s, i, i)

Digits == {"0", "1", "2", "3", "4", "5", "6", "7", "8", "9"}

Letters ==
    {"a", "b", "c", "d", "e", "f", "g", "h", "i", "j", "k", "l", "m",
     "n", "o", "p", "q", "r", "s", "t", "u", "v", "w", "x", "y", "z",
     "A", "B", "C", "D", "E", "F", "G", "H", "I", "J", "K", "L", "M",
     "N", "O", "P", "Q", "R", "S", "T", "U", "V", "W", "X", "Y", "Z"}

\* [a-zA-Z0-9]
IsAlnum(c) == c \in Letters \cup Digits

\* \d
IsDigit(c) == c \in Digits

\* \s
IsSpace(c) == c \in {" ", "\n", "\t", "\r"}

\* what "." of a regular expression does not match
IsLineTerminator(c) == c \in {"\n", "\r"}

\* [0-9+\-*/%().\s]
IsCalcChar(c) == IsDigit(c) \/ IsSpace(c) \/ c \in {"+", "-", "*", "/", "%", "(", ")", "."}

\* [+\-*/%()]
IsOperator(c) == c \in {"+", "-", "*", "/", "%", "(", ")"}

Min(S) == CHOOSE x \in S : \A y \in S : x <= y

Max(S) == CHOOSE x \in S : \A y \in S : x >= y

\* s from index i (1-based) to its end
From(s, i) == IF i > Len(s) THEN "" ELSE SubSeq(s, i, Len(s))

\* s before index i
Before(s, i) == IF i <= 1 THEN "" ELSE SubSeq(s, 1, i - 1)

\* whether pat occurs in s at index i
OccursAt(s, pat, i) ==
    /\ i >= 1
    /\ i + Len(pat) - 1 <= Len(s)
    /\ SubSeq(s, i, i + Len(pat) - 1) = pat

\* String.prototype.includes
Includes(s, pat) == \E i \in 1..(Len(s) + 1) : OccursAt(s, pat, i)

\* String.prototype.lastIndexOf, 1-based; 0 stands for -1
LastIndexOf(s, pat) ==
    LET hits == {i \in 1..(Len(s) + 1) : OccursAt(s, pat, i)}
    IN  IF hits = {} THEN 0 ELSE Max(hits)

\* String.prototype.trim
Trim(s) ==
    LET keep == {i \in 1..Len(s) : ~IsSpace(Ch(s, i))}
    IN  IF keep = {} THEN "" ELSE SubSeq(s, Min(keep), Max(keep))

AllIn(s, lo, hi, class(_)) == \A k \in lo..hi : class(Ch(s, k))


(***************************************************************************)
(* Regular expressions of the content script, each as the leftmost match   *)
(* a JavaScript engine finds.  An index of 0 means "no match".             *)
(***************************************************************************)

\* value.match(/\/cal:(.+)$/): start index of the match
CalMatch(value) ==
    LET hits == {i \in 1..Len(value) :
                    /\ OccursAt(value, "/cal:", i)
                    /\ i + 5 <= Len(value)
                    /\ \A k \in (i + 5)..Len(value) : ~IsLineTerminator(Ch(value, k))}
    IN  IF hits = {} THEN 0 ELSE Min(hits)

\* value.match(/\/cal:([0-9+\-*/%().\s]+)$/): start index of the match
CalOperatorMatch(value) ==
    LET hits == {i \in 1..Len(value) :
                    /\ OccursAt(value, "/cal:", i)
                    /\ i + 5 <= Len(value)
                    /\ AllIn(value, i + 5, Len(value), IsCalcChar)}
    IN  IF hits = {} THEN 0 ELSE Min(hits)

\* value.match(/\/([a-zA-Z0-9]+):(\d+)$/): <<index of "/", index of ":">>, or <<>>
MatchWithCount(value) ==
    LET hits == {p \in {i \in 1..Len(value) : Ch(value, i) = "/"}
                        \X {j \in 1..Len(value) : Ch(value, j) = ":"} :
                    /\ p[1] + 1 < p[2]
                    /\ AllIn(value, p[1] + 1, p[2] - 1, IsAlnum)
                    /\ p[2] < Len(value)
                    /\ AllIn(value, p[2] + 1, Len(value), IsDigit)}
    IN  IF hits = {} THEN <<>> ELSE CHOOSE p \in hits : \A q \in hits : p[1] <= q[1]

\* value.match(/\/([a-zA-Z0-9]+)$/): index of "/", or 0
MatchWithoutCount(value) ==
    LET hits == {i \in 1..Len(value) :
                    /\ Ch(value, i) = "/"
                    /\ i < Len(value)
                    /\ AllIn(value, i + 1, Len(value), IsAlnum)}
    IN  IF hits = {} THEN 0 ELSE Min(hits)

\* value.match(/\/[a-zA-Z0-9]+(:?\d*)$/) of handleKeydown
IsShortcutPattern(value) ==
    \E i \in {h \in 1..Len(value) : Ch(value, h) = "/"} : \E j \in (i + 1)..Len(value) :
        /\ AllIn(value, i + 1, j, IsAlnum)
        /\ \/ j = Len(value)
           \/ /\ Ch(value, j + 1) = ":"
              /\ AllIn(value, j + 2, Len(value), IsDigit)

\* value.match(/\/[a-zA-Z0-9]+(:?\S*)$/) of the poll
HasPollPattern(value) ==
    \E i \in 1..Len(value) :
        /\ Ch(value, i) = "/"
        /\ i < Len(value)
        /\ IsAlnum(Ch(value, i + 1))
        /\ \A k \in (i + 2)..Len(value) : ~IsSpace(Ch(value, k))

(***************************************************************************)
(* Numbers.  A JavaScript number is modelled as an exact rational          *)
(* [k |-> "fin", n, d] in lowest terms with d > 0, or as one of the three  *)
(* non-finite values "inf", "ninf" and "nan".                              *)
(***************************************************************************)
Abs(x) == IF x < 0 THEN -x ELSE x

RECURSIVE Gcd(_, _)
Gcd(a, b) == IF b = 0 THEN a ELSE Gcd(b, a % b)

Fin(n, d) ==
    LET g == Gcd(Abs(n), Abs(d))
        sgn == IF d < 0 THEN -1 ELSE 1
    IN  [k |-> "fin", n |-> (sgn * n) \div g, d |-> Abs(d) \div g]

PosInf == [k |-> "inf", n |-> 0, d |-> 1]

NegInf == [k |-> "ninf", n |-> 0, d |-> 1]

NaN == [k |-> "nan", n |-> 0, d |-> 1]

IsZero(a) == a.k = "fin" /\ a.n = 0

\* -1, 0 or 1 for a number that is not NaN
Sign(a) ==
    CASE a.k = "inf" -> 1
      [] a.k = "ninf" -> -1
      [] OTHER -> IF a.n > 0 THEN 1 ELSE IF a.n < 0 THEN -1 ELSE 0

\* unary minus
Neg(a) ==
    CASE a.k = "fin" -> Fin(-a.n, a.d)
      [] a.k = "inf" -> NegInf
      [] a.k = "ninf" -> PosInf
      [] OTHER -> NaN

\* left + right
Add(a, b) ==
    CASE a.k = "nan" \/ b.k = "nan" -> NaN
      [] a.k = "fin" /\ b.k = "fin" -> Fin(a.n * b.d + b.n * a.d, a.d * b.d)
      [] a.k = "fin" -> b
      [] b.k = "fin" -> a
      [] a.k = b.k -> a
      [] OTHER -> NaN

\* left - right
Sub(a, b) == Add(a, Neg(b))

\* left * right
Mul(a, b) ==
    CASE a.k = "nan" \/ b.k = "nan" -> NaN
      [] a.k = "fin" /\ b.k = "fin" -> Fin(a.n * b.n, a.d * b.d)
      [] IsZero(a) \/ IsZero(b) -> NaN
      [] Sign(a) * Sign(b) > 0 -> PosInf
      [] OTHER -> NegInf

\* left / right of IEEE arithmetic, for right # 0
Quot(a, b) ==
    CASE a.k = "nan" \/ b.k = "nan" -> NaN
      [] a.k = "fin" /\ b.k = "fin" -> Fin(a.n * b.d, a.d * b.n)
      [] a.k = "fin" -> Fin(0, 1)
      [] b.k = "fin" -> IF Sign(a) * Sign(b) > 0 THEN PosInf ELSE NegInf
      [] OTHER -> NaN

\* a faulty division that leaves a zero divisor to the host: 0/0 is NaN and x/0 has
\* the sign of x
DivByHost(a, b) ==
    IF ~IsZero(b) THEN Quot(a, b)
    ELSE IF a.k = "nan" \/ IsZero(a) THEN NaN
    ELSE IF Sign(a) > 0 THEN PosInf
    ELSE NegInf

\* right !== 0 ? left / right : Infinity
Div(a, b) == IF IsZero(b) THEN PosInf ELSE Quot(a, b)

\* integer quotient rounded towards zero
TruncDiv(n, d) == IF n >= 0 THEN n \div d ELSE -((-n) \div d)

\* left % right: the remainder has the sign of the dividend
Mod(a, b) ==
    CASE a.k = "nan" \/ b.k = "nan" -> NaN
      [] a.k # "fin" -> NaN
      [] IsZero(b) -> NaN
      [] b.k # "fin" -> a
      [] OTHER ->
            LET q == TruncDiv(a.n * b.d, a.d * Abs(b.n))
            IN  Sub(a, Mul(Fin(q, 1), Fin(Abs(b.n), b.d)))

\* Number.isInteger
IsInteger(a) == a.k = "fin" /\ a.d = 1

\* a faulty rounding that cuts the digits after the fourth decimal place
ToFixed4Cut(a) ==
    Fin((IF a.n < 0 THEN -1 ELSE 1) * ((Abs(a.n) * 10000) \div a.d), 10000)

\* parseFloat(x.toFixed(4)): the nearest multiple of 1/10000, ties away from zero
ToFixed4(a) ==
    LET r == (2 * Abs(a.n) * 10000 + a.d) \div (2 * a.d)
    IN  Fin((IF a.n < 0 THEN -1 ELSE 1) * r, 10000)

DigitVal(c) == CHOOSE v \in 0..9 : Ch("0123456789", v + 1) = c

RECURSIVE StrToNat(_)
\* the value of a string of decimal digits (parseInt(s, 10))
StrToNat(s) ==
    IF s = "" THEN 0
    ELSE 10 * StrToNat(SubSeq(s, 1, Len(s) - 1)) + DigitVal(Ch(s, Len(s)))

RECURSIVE NatToStr(_)
\* the decimal digits of a natural number
NatToStr(n) ==
    IF n < 10 THEN Ch("0123456789", n + 1)
    ELSE NatToStr(n \div 10) \o Ch("0123456789", (n % 10) + 1)

RECURSIVE Pow10(_)
Pow10(e) == IF e = 0 THEN 1 ELSE 10 * Pow10(e - 1)

RECURSIVE FracDigits(_, _)
\* the digits of n / d after the decimal point, for n < d and d a divisor of a power of 10
FracDigits(n, d) ==
    IF n = 0 THEN "" ELSE NatToStr((10 * n) \div d) \o FracDigits((10 * n) % d, d)

\* Number.prototype.toString of a number whose fraction terminates
NumToString(a) ==
    CASE a.k = "inf" -> "Infinity"
      [] a.k = "ninf" -> "-Infinity"
      [] a.k = "nan" -> "NaN"
      [] OTHER ->
            (IF a.n < 0 THEN "-" ELSE "")
            \o NatToStr(Abs(a.n) \div a.d)
            \o (IF a.d = 1 THEN "" ELSE "." \o FracDigits(Abs(a.n) % a.d, a.d))

\* parseFloat of a token \d+\.?\d*
ParseFloat(token) ==
    LET dots == {i \in 1..Len(token) : Ch(token, i) = "."}
        dot == IF dots = {} THEN Len(token) + 1 ELSE Min(dots)
        whole == Before(token, dot)
        frac == From(token, dot + 1)
    IN  Fin(StrToNat(whole) * Pow10(Len(frac)) + StrToNat(frac), Pow10(Len(frac)))

(***************************************************************************)
(* calculate(expression): sanitising, tokenising, recursive descent        *)
(***************************************************************************)
RECURSIVE Sanitize(_)
\* expression.replace(/[^0-9+\-*/%().\s]/g, '')
Sanitize(s) ==
    IF s = "" THEN ""
    ELSE (IF IsCalcChar(Ch(s, 1)) THEN Ch(s, 1) ELSE "") \o Sanitize(From(s, 2))

\* the last index of the run of digits of s that starts at i (i - 1 when there is none)
DigitRunEnd(s, i) == Max({j \in (i - 1)..Len(s) : AllIn(s, i, j, IsDigit)})

\* the last index of the token \d+\.?\d* of s that starts at the digit at i
NumberEnd(s, i) ==
    LET e == DigitRunEnd(s, i)
    IN  IF e < Len(s) /\ Ch(s, e + 1) = "." THEN DigitRunEnd(s, e + 2) ELSE e

RECURSIVE Tokenize(_, _)
\* sanitized.match(/(\d+\.?\d*|[+\-*/%()])/g) from index i on; characters that start
\* no token (white space, a "." not after a digit) are passed over
Tokenize(s, i) ==
    IF i > Len(s) THEN <<>>
    ELSE IF IsDigit(Ch(s, i))
         THEN <<SubSeq(s, i, NumberEnd(s, i))>> \o Tokenize(s, NumberEnd(s, i) + 1)
    ELSE IF IsOperator(Ch(s, i)) THEN <<Ch(s, i)>> \o Tokenize(s, i + 1)
    ELSE Tokenize(s, i + 1)

\* tokens[pos], with "" for undefined (pos is 0-based as in the source)
Peek(tokens, pos) == IF pos < Len(tokens) THEN tokens[pos + 1] ELSE ""

RECURSIVE parseExpr(_, _)
RECURSIVE parseTerm(_, _)
RECURSIVE parseFactor(_, _)
RECURSIVE ExprLoop(_, _, _)
RECURSIVE TermLoop(_, _, _)

\* factor = number | '(' expr ')' | '-' factor; the result is [pos, val]
parseFactor(tokens, pos) ==
    IF Peek(tokens, pos) = "("
    THEN LET closing(r) ==
                 IF Peek(tokens, r.pos) = ")" THEN [pos |-> r.pos + 1, val |-> r.val] ELSE r
         IN  closing(parseExpr(tokens, pos + 1))
    ELSE IF Peek(tokens, pos) = "-"
    THEN LET negated(r) == [pos |-> r.pos, val |-> Neg(r.val)]
         IN  negated(parseFactor(tokens, pos + 1))
    ELSE IF Peek(tokens, pos) = "" THEN [pos |-> pos + 1, val |-> NaN]
    ELSE IF IsDigit(Ch(Peek(tokens, pos), 1))
         THEN [pos |-> pos + 1, val |-> ParseFloat(Peek(tokens, pos))]
    ELSE [pos |-> pos + 1, val |-> NaN]

\* the while loop of parseTerm
TermLoop(tokens, pos, left) ==
    IF Peek(tokens, pos) \in {"*", "/", "%"}
    THEN LET applied(op, r) ==
                 TermLoop(tokens, r.pos,
                          IF op = "*" THEN Mul(left, r.val)
                          ELSE IF op = "/" THEN Div(left, r.val)
                          ELSE Mod(left, r.val))
         IN  applied(Peek(tokens, pos), parseFactor(tokens, pos + 1))
    ELSE [pos |-> pos, val |-> left]

\* term = factor (('*' | '/' | '%') factor)*
parseTerm(tokens, pos) ==
    LET loop(l) == TermLoop(tokens, l.pos, l.val)
    IN  loop(parseFactor(tokens, pos))

\* a faulty loop that applies '+' and '-' from the right
ExprLoopFromRight(tokens, pos, left) ==
    IF Peek(tokens, pos) \in {"+", "-"}
    THEN LET applied(op, r) ==
                 [pos |-> r.pos,
                  val |-> IF op = "+" THEN Add(left, r.val) ELSE Sub(left, r.val)]
         IN  applied(Peek(tokens, pos), parseExpr(tokens, pos + 1))
    ELSE [pos |-> pos, val |-> left]

\* the while loop of parseExpr
ExprLoop(tokens, pos, left) ==
    IF Peek(tokens, pos) \in {"+", "-"}
    THEN LET applied(op, r) ==
                 ExprLoop(tokens, r.pos,
                          IF op = "+" THEN Add(left, r.val) ELSE Sub(left, r.val))
         IN  applied(Peek(tokens, pos), parseTerm(tokens, pos + 1))
    ELSE [pos |-> pos, val |-> left]

\* expr = term (('+' | '-') term)*
parseExpr(tokens, pos) ==
    LET loop(l) == ExprLoop(tokens, l.pos, l.val)
    IN  loop(parseTerm(tokens, pos))

CalcNull == [k |-> "null", n |-> 0, d |-> 1]

CalcError == [k |-> "error", n |-> 0, d |-> 1]

\* the end of calculate: tokens left over give null, a non-finite value gives 'Error',
\* and a fraction is rounded to four places
resultOf(tokens, r) ==
    IF r.pos # Len(tokens) THEN CalcNull
    ELSE IF r.val.k # "fin" THEN CalcError
    ELSE IF IsInteger(r.val) THEN r.val
    ELSE ToFixed4(r.val)

\* calculate(expression): CalcNull for null, CalcError for 'Error', else the number
calculate(expression) ==
    LET sanitized == Trim(Sanitize(expression))
        tokens == Tokenize(sanitized, 1)
    IN  IF sanitized = "" THEN CalcNull
        ELSE IF ~\E i \in 1..Len(sanitized) : IsDigit(Ch(sanitized, i)) THEN CalcNull
        ELSE IF tokens = <<>> THEN CalcNull
        ELSE resultOf(tokens, parseExpr(tokens, 0))

\* result.toString()
ResultToString(result) == IF result.k = "error" THEN "Error" ELSE NumToString(result)

(***************************************************************************)
(* Expansion: filler text, emoji sampling, static text                     *)
(***************************************************************************)

\* loremBase.split(/\s+/)
LoremWords ==
    <<"Lorem", "ipsum", "dolor", "sit", "amet,", "consectetur", "adipiscing", "elit.",
      "Sed", "do", "eiusmod", "tempor", "incididunt", "ut", "labore", "et", "dolore",
      "magna", "aliqua.", "Ut", "enim", "ad", "minim", "veniam,", "quis", "nostrud",
      "exercitation", "ullamco", "laboris", "nisi", "ut", "aliquip", "ex", "ea",
      "commodo", "consequat.", "Duis", "aute", "irure", "dolor", "in", "reprehenderit",
      "in", "voluptate", "velit", "esse", "cillum", "dolore", "eu", "fugiat", "nulla",
      "pariatur.", "Excepteur", "sint", "occaecat", "cupidatat", "non", "proident,",
      "sunt", "in", "culpa", "qui", "officia", "deserunt", "mollit", "anim", "id", "est",
      "laborum.">>

\* the word limit of /lorem
LoremMax == 1000

RECURSIVE RepeatWords(_, _)
\* while (result.length < count) result = result.concat(words)
RepeatWords(result, count) ==
    IF Len(result) < count THEN RepeatWords(result \o LoremWords, count) ELSE result

RECURSIVE JoinWords(_, _, _)
\* words.slice(lo - 1, hi).join(' '), joined by halves
JoinWords(words, lo, hi) ==
    IF lo > hi THEN ""
    ELSE IF lo = hi THEN words[lo]
    ELSE JoinWords(words, lo, (lo + hi) \div 2) \o " "
             \o JoinWords(words, ((lo + hi) \div 2) + 1, hi)

\* result.slice(0, count).join(' ') for a count within the limit
SliceAndJoin(count) == JoinWords(RepeatWords(<<>>, count), 1, count)

\* a faulty generator that goes through the base paragraph once only
generateLoremIpsumOnce(count) ==
    IF count <= 0 THEN ""
    ELSE SliceAndJoin(IF count > Len(LoremWords) THEN Len(LoremWords) ELSE count)

generateLoremIpsum(count) ==
    IF count <= 0 THEN ""
    ELSE SliceAndJoin(IF count > LoremMax THEN LoremMax ELSE count)

\* a code point of the classes Emoji_Presentation, Emoji or Emoji_Modifier
IsEmojiCodePoint(c) == c \in {"@", "&", "~", "#", "*"} \cup Digits

RECURSIVE splitEmojis(_)
\* emojiString.match(emojiRegex): one element per matching code point
splitEmojis(pool) ==
    IF pool = "" THEN <<>>
    ELSE (IF IsEmojiCodePoint(Ch(pool, 1)) /\ ~IsSpace(Ch(pool, 1))
          THEN <<Ch(pool, 1)>> ELSE <<>>)
         \o splitEmojis(From(pool, 2))

RECURSIVE DrawEmojis(_, _, _, _)
\* draws i..count; rnd[j] stands for the j-th value of Math.random()
DrawEmojis(emojis, i, count, rnd) ==
    IF i > count THEN ""
    ELSE emojis[(rnd[((i - 1) % Len(rnd)) + 1] % Len(emojis)) + 1]
         \o DrawEmojis(emojis, i + 1, count, rnd)

\* a faulty sampler that draws from the characters of the pool string as they are
getRandomEmojisUnsplit(pool, count, rnd) ==
    IF pool = "" \/ count <= 0 THEN ""
    ELSE DrawEmojis([i \in 1..Len(pool) |-> Ch(pool, i)], 1, count, rnd)

getRandomEmojis(pool, count, rnd) ==
    IF pool = "" \/ count <= 0 THEN ""
    ELSE IF splitEmojis(pool) = <<>> THEN ""
    ELSE DrawEmojis(splitEmojis(pool), 1, count, rnd)

\* this.shortcuts[shortcutKey] is defined
HasShortcut(shortcuts, shortcutKey) == shortcutKey \in DOMAIN shortcuts

\* a faulty expansion that leaves out the space before the emoji
TextWithEmojisJoined(shortcut, count, rnd) ==
    shortcut.text \o getRandomEmojis(shortcut.emojis, count, rnd)

\* the text and, for count > 0 and a non-empty pool, " " and the drawn emoji
TextWithEmojis(shortcut, count, rnd) ==
    IF shortcut.emojis # "" /\ count > 0 /\ getRandomEmojis(shortcut.emojis, count, rnd) # ""
    THEN shortcut.text \o " " \o getRandomEmojis(shortcut.emojis, count, rnd)
    ELSE shortcut.text

generateText(shortcuts, shortcutKey, count, rnd) ==
    IF ~HasShortcut(shortcuts, shortcutKey) THEN ""
    ELSE TextWithEmojis(shortcuts[shortcutKey], count, rnd)

(***************************************************************************)
(* The page and the ShortcutManager instance                               *)
(***************************************************************************)
VARIABLES
    shortcuts,          \* this.shortcuts: trigger key -> [text, emojis]
    value,              \* text content of each editable surface
    caret,              \* caret offset of each editable surface
    active,             \* document.activeElement: a surface, or "body"
    previewElement,     \* <<>> for null, else <<[text |-> the preview's text]>>
    currentMatch,       \* <<>> for null, else <<the candidate>>
    lastHandledValue,   \* this._lastHandledValue: <<>> for undefined, else <<value>>
    lastPolledValue,    \* this._lastPolledValue
    lastPolledElement,  \* this._lastPolledElement: a surface, or "null"
    timers,             \* pending setTimeout(0) callbacks of handleKeydown, per target
    commits,            \* calls of replaceShortcut made by the last event
    inputEvents,        \* 'input' events dispatched to the page by the last event
    changeEvents,       \* 'change' events dispatched to the page by the last event
    expression,         \* argument of the last calculate() call of the evaluator run
    calcResult,         \* its result
    emojiString,        \* first argument of the getRandomEmojis call of the sampler run
    sampleCount,        \* its second argument
    sampled,            \* <<>> before the call, else <<the string it returned>>
    localShortcuts,     \* argument of the sync() call: the store of chrome.storage.local
    remoteFile,         \* <<>> while the repository has no file, else <<its content>>
    syncResult,         \* <<>> before the call, else <<the object sync() resolved to>>
    storedShortcuts,    \* 'shortcuts' of chrome.storage.local: <<>> when missing
    syncSettings,       \* 'syncSettings' of chrome.storage.local: <<>> when missing
    job,                \* the background sync in flight and the await it is at
    autoTimers,         \* pending setTimeout(2000) callbacks of the onChanged listener
    installing,         \* <<>>, or <<what the onInstalled handler read>> before its set
    lastPush,           \* <<>>, or <<content and sha of the push of the sync in flight>>
    deletedKeys         \* keys the user deleted from the local store only and did not save again

vars ==
    <<shortcuts, value, caret, active, previewElement, currentMatch, lastHandledValue,
      lastPolledValue, lastPolledElement, timers, commits, inputEvents, changeEvents,
      expression, calcResult, emojiString, sampleCount, sampled,
      localShortcuts, remoteFile, syncResult, storedShortcuts, syncSettings, job,
      autoTimers, installing, lastPush, deletedKeys>>

\* the variables of the background service worker and of the popup
bgVars ==
    <<storedShortcuts, syncSettings, job, autoTimers, installing, lastPush, deletedKeys>>

\* no sync in flight
NoJob == [pc |-> "idle"]

\* the service worker and the popup before anything was stored or started
BackgroundAtRest ==
    /\ storedShortcuts = <<>>
    /\ syncSettings = <<>>
    /\ job = NoJob
    /\ autoTimers = 0
    /\ installing = <<>>
    /\ lastPush = <<>>
    /\ deletedKeys = {}

\* a text field (<input> or <textarea>) and a contenteditable rich-text region
Surfaces == {"inp", "ce"}

isContentEditable(el) == el = "ce"

\* the instance and the page as one record, so that handlers compose
State ==
    [shortcuts |-> shortcuts, value |-> value, caret |-> caret, active |-> active,
     previewElement |-> previewElement, currentMatch |-> currentMatch,
     lastHandledValue |-> lastHandledValue, lastPolledValue |-> lastPolledValue,
     lastPolledElement |-> lastPolledElement, timers |-> timers,
     commits |-> 0, inputEvents |-> 0, changeEvents |-> 0]

getValue(s, el) == IF isContentEditable(el) THEN Trim(s.value[el]) ELSE s.value[el]

getCaretPosition(s, el) == s.caret[el]

removePreview(s) ==
    IF s.previewElement # <<>>
    THEN [s EXCEPT !.previewElement = <<>>, !.currentMatch = <<>>]
    ELSE s

\* showPreview; directText = "" stands for a null or empty argument (both falsy)
showPreview(s, inputElement, shortcutKey, count, directText, rnd) ==
    IF directText = "" /\ ~HasShortcut(s.shortcuts, shortcutKey) THEN s
    ELSE LET previewText ==
                 IF directText # "" THEN directText
                 ELSE TextWithEmojis(s.shortcuts[shortcutKey], count, rnd.preview)
         IN  [removePreview(s) EXCEPT !.previewElement = <<[text |-> previewText]>>,
                                      !.active = inputElement]

Candidate(target, shortcutKey, count, position, hasCount, fullText) ==
    [target |-> target, shortcutKey |-> shortcutKey, count |-> count,
     position |-> position, hasCount |-> hasCount, fullText |-> fullText]

\* the two previews of STEP 1: the result of a complete expression, or the typing
\* indicator when calculate returned null
showCalculation(s, target, expr, result, rnd) ==
    IF result.k # "null"
    THEN showPreview(
             [s EXCEPT !.currentMatch =
                 <<Candidate(target, "/cal", 0, getCaretPosition(s, target), FALSE,
                             ResultToString(result))>>],
             target, "/cal", 0, expr \o " = " \o ResultToString(result), rnd)
    ELSE showPreview(
             [s EXCEPT !.currentMatch =
                 <<Candidate(target, "/cal", 0, getCaretPosition(s, target), FALSE, "")>>],
             target, "/cal", 0, "# " \o expr \o " = ...", rnd)

\* STEP 1 of handleInput, for a value on which /\/cal:(.+)$/ matches
handleCal(s, target, value_, rnd) ==
    LET expr == From(value_, CalMatch(value_) + 5)
    IN  showCalculation(s, target, expr, calculate(expr), rnd)

\* STEP 2 of handleInput, for a value on which /\/([a-zA-Z0-9]+):(\d+)$/ matches
handleWithCount(s, target, value_, rnd) ==
    LET m == MatchWithCount(value_)
        shortcutKey == SubSeq(value_, m[1], m[2] - 1)
        count == StrToNat(From(value_, m[2] + 1))
        position == getCaretPosition(s, target)
    IN  IF shortcutKey = "/lorem"
        THEN IF count > LoremMax
             THEN showPreview(
                      [s EXCEPT !.currentMatch =
                          <<Candidate(target, shortcutKey, count, position, TRUE, "")>>],
                      target, shortcutKey, count,
                      "Error: Maximum 1000 words allowed! You requested "
                          \o NatToStr(count) \o " words.", rnd)
             ELSE showPreview(
                      [s EXCEPT !.currentMatch =
                          <<Candidate(target, shortcutKey, count, position, TRUE,
                                      generateLoremIpsum(count))>>],
                      target, shortcutKey, count, generateLoremIpsum(count), rnd)
        ELSE IF HasShortcut(s.shortcuts, shortcutKey)
        THEN showPreview(
                 [s EXCEPT !.currentMatch =
                     <<Candidate(target, shortcutKey, count, position, TRUE,
                                 generateText(s.shortcuts, shortcutKey, count, rnd.text))>>],
                 target, shortcutKey, count, "", rnd)
        ELSE s

\* STEP 3 of handleInput, for a value on which /\/([a-zA-Z0-9]+)$/ matches
handleWithoutCount(s, target, value_, rnd) ==
    LET shortcutKey == From(value_, MatchWithoutCount(value_))
    IN  IF HasShortcut(s.shortcuts, shortcutKey)
        THEN showPreview(
                 [s EXCEPT !.currentMatch =
                     <<Candidate(target, shortcutKey, 0, getCaretPosition(s, target), FALSE,
                                 generateText(s.shortcuts, shortcutKey, 0, rnd.text))>>],
                 target, shortcutKey, 0, "", rnd)
        ELSE s

\* the matching steps of handleInput, after the preview has been cleared
matchValue(s, target, value_, rnd) ==
    IF Includes(value_, "/cal:") /\ CalMatch(value_) # 0
    THEN handleCal(s, target, value_, rnd)
    ELSE IF MatchWithCount(value_) # <<>> THEN handleWithCount(s, target, value_, rnd)
    ELSE IF MatchWithoutCount(value_) # 0 THEN handleWithoutCount(s, target, value_, rnd)
    ELSE s

\* the element handleInput works on: e.target, or the active element when e.target has
\* an empty value and is not contenteditable
inputTarget(s, eTarget) ==
    IF s.value[eTarget] = "" /\ ~isContentEditable(eTarget) /\ s.active \in Surfaces
    THEN s.active
    ELSE eTarget

\* a faulty handleInput that skips every value it has handled, preview or not
handleInputSkipsHandled(s, eTarget, rnd) ==
    LET target == inputTarget(s, eTarget)
        value_ == getValue(s, target)
    IN  IF s.lastHandledValue = <<value_>> THEN s
        ELSE matchValue(removePreview([s EXCEPT !.lastHandledValue = <<value_>>]),
                        target, value_, rnd)

handleInput(s, eTarget, rnd) ==
    LET target == inputTarget(s, eTarget)
        value_ == getValue(s, target)
    IN  IF s.lastHandledValue = <<value_>> /\ s.previewElement # <<>> THEN s
        ELSE matchValue(removePreview([s EXCEPT !.lastHandledValue = <<value_>>]),
                        target, value_, rnd)

RECURSIVE deliverInput(_, _, _, _)
\* one 'input' event on el reaching n handleInput listeners of the extension
deliverInput(s, el, n, rnd) ==
    IF n = 0 THEN s ELSE deliverInput(handleInput(s, el, rnd), el, n - 1, rnd)

\* element.dispatchEvent(new Event('input', ...))
dispatchInput(s, el, n, rnd) ==
    deliverInput([s EXCEPT !.inputEvents = @ + 1], el, n, rnd)

\* element.dispatchEvent(new Event('change', ...)): the extension has no listener
dispatchChange(s) == [s EXCEPT !.changeEvents = @ + 1]

setValue(s, element, newValue, n, rnd) ==
    LET written == [s EXCEPT !.value[element] = newValue,
                             !.caret[element] = Len(newValue)]
    IN  [dispatchInput(written, element, n, rnd) EXCEPT
            !.changeEvents = IF isContentEditable(element) THEN @ ELSE @ + 1,
            !.active = element]

\* a faulty caret placement that leaves the caret where setValue put it
setCaretPositionKept(s, element, position) == s

setCaretPosition(s, element, position) ==
    IF isContentEditable(element)
    THEN [s EXCEPT !.caret[element] =
             IF s.value[element] # "" /\ position <= Len(s.value[element])
             THEN position ELSE 0]
    ELSE [s EXCEPT !.active = element,
                   !.caret[element] =
                       IF position <= Len(s.value[element]) THEN position
                       ELSE Len(s.value[element])]

\* the literal that replaceShortcut looks for in the current value
shortcutPattern(m, value_) ==
    IF m.shortcutKey = "/cal"
    THEN IF CalMatch(value_) # 0 THEN From(value_, CalMatch(value_)) ELSE "/cal"
    ELSE IF m.count > 0 THEN m.shortcutKey \o ":" \o NatToStr(m.count)
    ELSE m.shortcutKey

\* fullText || this.generateText(shortcutKey, count)
finalTextOf(s, m, rnd) ==
    IF m.fullText # "" THEN m.fullText
    ELSE generateText(s.shortcuts, m.shortcutKey, m.count, rnd.text)

\* the value after the replacement at startIndex (1-based)
replacedValue(currentValue, startIndex, pattern, finalText) ==
    Before(currentValue, startIndex) \o finalText
        \o From(currentValue, startIndex + Len(pattern))

\* the body of replaceShortcut for a candidate m whose key may be replaced
replaceMatch(s, m, n, rnd) ==
    LET finalText == finalTextOf(s, m, rnd)
        currentValue == getValue(s, m.target)
        pattern == shortcutPattern(m, currentValue)
        startIndex == LastIndexOf(currentValue, pattern)
        newValue == replacedValue(currentValue, startIndex, pattern, finalText)
        newCursorPos == (startIndex - 1) + Len(finalText)
    IN  IF startIndex # 0
        THEN dispatchChange(
                 dispatchInput(
                     setCaretPosition(setValue(s, m.target, newValue, n, rnd),
                                      m.target, newCursorPos),
                     m.target, n, rnd))
        ELSE s

\* a faulty replaceShortcut that does not look whether the store still defines the key
replaceShortcutUnchecked(s0, n, rnd) ==
    LET s == [s0 EXCEPT !.commits = @ + 1]
    IN  IF s.currentMatch = <<>> THEN s
        ELSE removePreview(replaceMatch(s, s.currentMatch[1], n, rnd))

\* replaceShortcut; n is the number of handleInput listeners the events it dispatches reach
replaceShortcut(s0, n, rnd) ==
    LET s == [s0 EXCEPT !.commits = @ + 1]
    IN  IF s.currentMatch = <<>> THEN s
        ELSE IF /\ ~HasShortcut(s.shortcuts, s.currentMatch[1].shortcutKey)
                /\ s.currentMatch[1].shortcutKey \notin {"/lorem", "/cal"}
        THEN removePreview(s)
        ELSE removePreview(replaceMatch(s, s.currentMatch[1], n, rnd))

\* /[+\-*/%().]/.test(e.key)
isCalculatorKey(key) ==
    \E i \in 1..Len(key) : Ch(key, i) \in {"+", "-", "*", "/", "%", "(", ")", "."}

\* e.key.match(/[0-9]/)
hasDigit(key) == \E i \in 1..Len(key) : IsDigit(Ch(key, i))

\* the part of handleKeydown after the accept keys
handleOtherKey(s, key, eTarget) ==
    LET hidden ==
            IF /\ key # ":" /\ ~hasDigit(key) /\ key # "Backspace" /\ ~isCalculatorKey(key)
               /\ ~IsShortcutPattern(getValue(s, eTarget))
               /\ CalMatch(getValue(s, eTarget)) = 0
            THEN removePreview(s)
            ELSE s
    IN  IF isCalculatorKey(key)
        THEN [hidden EXCEPT !.timers[eTarget] = @ + 1]
        ELSE hidden

\* one handleKeydown listener
handleKeydown(s0, key, eTarget, n, rnd) ==
    LET s == IF key = "Escape" THEN removePreview(s0) ELSE s0
    IN  IF key \in {"Tab", "Enter"} /\ s.previewElement # <<>> /\ s.currentMatch # <<>>
        THEN replaceShortcut(s, n, rnd)
        ELSE handleOtherKey(s, key, eTarget)

RECURSIVE deliverKeydown(_, _, _, _, _, _)
\* one keydown event reaching k handleKeydown listeners
deliverKeydown(s, key, eTarget, k, n, rnd) ==
    IF k = 0 THEN s
    ELSE deliverKeydown(handleKeydown(s, key, eTarget, n, rnd), key, eTarget, k - 1, n, rnd)

\* the callback's preview, shown when calculate did not return null
showResult(s, target, expr, result, rnd) ==
    IF result.k # "null"
    THEN showPreview(
             [removePreview(s) EXCEPT !.currentMatch =
                 <<Candidate(target, "/cal", 0, getCaretPosition(s, target), FALSE,
                             ResultToString(result))>>],
             target, "/cal", 0, expr \o " = " \o ResultToString(result), rnd)
    ELSE s

\* a faulty callback that inserts the pending expansion instead of re-evaluating
calculatorTimeoutInserting(s, target, rnd) ==
    IF s.currentMatch # <<>> THEN replaceShortcut(s, 1, rnd) ELSE s

\* the callback handleKeydown passes to setTimeout for a calculator key
calculatorTimeout(s, target, rnd) ==
    LET value_ == getValue(s, target)
        calMatch == CalOperatorMatch(value_)
        expr == Trim(From(value_, calMatch + 5))
    IN  IF calMatch # 0 THEN showResult(s, target, expr, calculate(expr), rnd) ELSE s

\* handleClick, the document's click listener: inPreviewClass is
\* e.target.closest('.shortcut-preview'), inCopyBtn is e.target.closest('.copy-btn'); a
\* click elsewhere is never inside previewElement
handleClick(s, inPreviewClass, inCopyBtn, n, rnd) ==
    IF inPreviewClass
    THEN IF ~inCopyBtn THEN replaceShortcut(s, n, rnd) ELSE s
    ELSE IF s.previewElement # <<>> THEN removePreview(s) ELSE s

\* findAllEditableTargets, in iteration order: the active element when editable, then
\* the elements the known selectors find (the rich-text region)
findAllEditableTargets(s) ==
    IF s.active = "inp" THEN <<"inp", "ce">> ELSE <<"ce">>

\* whether the poll hands el to handleInput
pollTakes(s, el) ==
    /\ getValue(s, el) # ""
    /\ HasPollPattern(getValue(s, el)) \/ Includes(getValue(s, el), "/cal:")
    /\ getValue(s, el) # s.lastPolledValue \/ el # s.lastPolledElement

\* the setInterval callback of startPolling
pollTick(s, rnd) ==
    LET els == findAllEditableTargets(s)
        taken == {i \in 1..Len(els) : pollTakes(s, els[i])}
        el == els[Min(taken)]
    IN  IF taken = {} THEN s
        ELSE handleInput([s EXCEPT !.lastPolledValue = getValue(s, el),
                                   !.lastPolledElement = el],
                         el, rnd)

(***************************************************************************)
(* Bounds and input domains                                                *)
(***************************************************************************)

\* listeners of the extension one event can reach: the document's, and the element's own
MaxListeners == 2

\* pending setTimeout callbacks per target
MaxTimers == 1

\* independent values of Math.random() per sampling (reused cyclically beyond)
MaxDraws == 2

\* the Definition Store snapshots of the model
StoreFull ==
    [key \in {"/ty", "/go"} |->
        IF key = "/ty" THEN [text |-> "ty!", emojis |-> ""]
        ELSE [text |-> "/lorem:0", emojis |-> ""]]

StoreSmall == [key \in {"/go"} |-> [text |-> "/lorem:0", emojis |-> ""]]

Stores == {StoreFull, StoreSmall}

\* what the user may have in the <input>
TypedInp == {"", "/ty", "/cal:2+2", "/go"}

\* what the user may have in the rich-text region
TypedCe == {"", "/lorem:0"}

Typed(el) == IF el = "inp" THEN TypedInp ELSE TypedCe

Keys == {"Escape", "Tab", "Enter", "a", "Backspace", "*"}

Rnd == [text : [1..MaxDraws -> 0..1], preview : [1..MaxDraws -> 0..1]]

\* the values Math.random() can return to the handlers of one event.  getRandomEmojis
\* samples only for a definition with emojis and a count above 0, and the count comes
\* from a value that holds that key and ":" or from the pending candidate; in every
\* other state one tape stands for all
NoRnd == [text |-> [i \in 1..MaxDraws |-> 0], preview |-> [i \in 1..MaxDraws |-> 0]]

Tapes ==
    IF \E key \in DOMAIN shortcuts :
           /\ shortcuts[key].emojis # ""
           /\ \/ currentMatch # <<>>
              \/ \E el \in Surfaces : Includes(value[el], key \o ":")
    THEN Rnd
    ELSE {NoRnd}

(***************************************************************************)
(* Actions: one per event the page or the browser delivers                 *)
(***************************************************************************)
Init ==
    /\ shortcuts \in Stores
    /\ value = [el \in Surfaces |-> ""]
    /\ caret = [el \in Surfaces |-> 0]
    /\ active = "body"
    /\ previewElement = <<>>
    /\ currentMatch = <<>>
    /\ lastHandledValue = <<>>
    /\ lastPolledValue = ""
    /\ lastPolledElement = "null"
    /\ timers = [el \in Surfaces |-> 0]
    /\ commits = 0
    /\ inputEvents = 0
    /\ changeEvents = 0
    /\ expression = ""
    /\ calcResult = CalcNull
    /\ emojiString = ""
    /\ sampleCount = 0
    /\ sampled = <<>>
    /\ localShortcuts = <<>>
    /\ remoteFile = <<>>
    /\ syncResult = <<>>
    /\ BackgroundAtRest

\* the page and the instance take the fields of s, the state a handler returns
BecomesPage(s) ==
    /\ shortcuts' = s.shortcuts
    /\ value' = s.value
    /\ caret' = s.caret
    /\ active' = s.active
    /\ previewElement' = s.previewElement
    /\ currentMatch' = s.currentMatch
    /\ lastHandledValue' = s.lastHandledValue
    /\ lastPolledValue' = s.lastPolledValue
    /\ lastPolledElement' = s.lastPolledElement
    /\ timers' = s.timers
    /\ commits' = s.commits
    /\ inputEvents' = s.inputEvents
    /\ changeEvents' = s.changeEvents

\* an event of the page: the records of the evaluator and sampler runs stay
Becomes(s) ==
    /\ BecomesPage(s)
    /\ UNCHANGED <<expression, calcResult, emojiString, sampleCount, sampled,
                   localShortcuts, remoteFile, syncResult, bgVars>>

\* the user (or the host page) changes the content of el; no handler runs
Edit(el, v) ==
    /\ v # value[el]
    /\ Becomes([State EXCEPT !.value[el] = v, !.caret[el] = Len(v), !.active = el])

\* an 'input' or 'compositionend' event on el reaches n handleInput listeners
InputEvent(el, n) == \E rnd \in Tapes : Becomes(deliverInput(State, el, n, rnd))

\* the document's keyup listener
KeyUp ==
    /\ active \in Surfaces
    /\ \E rnd \in Tapes : Becomes(handleInput(State, active, rnd))

\* a keydown event on the focused surface reaches k handleKeydown listeners
Keydown(key, k) ==
    /\ active \in Surfaces
    /\ isCalculatorKey(key) => timers[active] + k <= MaxTimers
    /\ \E rnd \in Tapes : Becomes(deliverKeydown(State, key, active, k, k, rnd))

\* a pending setTimeout callback runs
TimerFire(el) ==
    /\ timers[el] > 0
    /\ \E rnd \in Tapes : Becomes(calculatorTimeout([State EXCEPT !.timers[el] = @ - 1], el, rnd))

\* a click on the preview, outside its copy button: the preview's own listener
ClickPreview(n) ==
    /\ previewElement # <<>>
    /\ \E rnd \in Tapes : Becomes(replaceShortcut([State EXCEPT !.active = "body"], n, rnd))

\* a click on the copy button: copyToClipboard, and the event stops there
ClickCopy ==
    /\ previewElement # <<>>
    /\ Becomes([State EXCEPT !.active = "body"])

\* a click elsewhere in the document, on a surface or on the body; no element of the
\* modelled document carries the class shortcut-preview
ClickOutside(where) ==
    /\ where \in Surfaces \cup {"body"}
    /\ Becomes(handleClick([State EXCEPT !.active = where], FALSE, FALSE, 1, NoRnd))

\* chrome.storage.onChanged with a new value of 'shortcuts'
StorageChanged(store) ==
    /\ store # shortcuts
    /\ Becomes([State EXCEPT !.shortcuts = store])

\* the 300 ms interval of startPolling
PollTick == \E rnd \in Tapes : Becomes(pollTick(State, rnd))

Next ==
    \/ \E el \in Surfaces : \E v \in Typed(el) : Edit(el, v)
    \/ \E el \in Surfaces : \E n \in 1..MaxListeners : InputEvent(el, n)
    \/ KeyUp
    \/ \E key \in Keys : \E k \in 1..MaxListeners : Keydown(key, k)
    \/ \E el \in Surfaces : TimerFire(el)
    \/ \E n \in 1..MaxListeners : ClickPreview(n)
    \/ ClickCopy
    \/ \E where \in Surfaces \cup {"body"} : ClickOutside(where)
    \/ \E store \in Stores : StorageChanged(store)
    \/ PollTick

Spec == Init /\ [][Next]_vars

(***************************************************************************)
(* The typing session: one store that does not change, richer values in    *)
(* the two surfaces, and only the events of matching, accepting and        *)
(* cancelling.                                                             *)
(***************************************************************************)

\* "/ty" has no emoji pool, "/gm" has a pool of two emoji, "/pk" has a pool string
\* that holds no emoji code point
StoreType ==
    [key \in {"/ty", "/gm", "/pk"} |->
        CASE key = "/ty" -> [text |-> "ty!", emojis |-> ""]
          [] key = "/gm" -> [text |-> "Hi", emojis |-> "@&"]
          [] OTHER -> [text |-> "pk", emojis |-> "^x"]]

TypedTypeInp ==
    {"", "/ty", "/ty b", "a /ty", "/ty:0", "/ty:03", "/ty:1 /ty:01", "/t", "/gm", "/gm:2",
     "/pk:2", "/cal:2+2", "/cal", "/cal:1\n/ty", "/lorem:2", "/nn:2"}

TypedTypeCe == {"", " /ty\n", "/gm:1"}

TypedType(el) == IF el = "inp" THEN TypedTypeInp ELSE TypedTypeCe

AcceptKeys == {"Tab", "Enter"}

InitType ==
    /\ shortcuts = StoreType
    /\ value = [el \in Surfaces |-> ""]
    /\ caret = [el \in Surfaces |-> 0]
    /\ active = "body"
    /\ previewElement = <<>>
    /\ currentMatch = <<>>
    /\ lastHandledValue = <<>>
    /\ lastPolledValue = ""
    /\ lastPolledElement = "null"
    /\ timers = [el \in Surfaces |-> 0]
    /\ commits = 0
    /\ inputEvents = 0
    /\ changeEvents = 0
    /\ expression = ""
    /\ calcResult = CalcNull
    /\ emojiString = ""
    /\ sampleCount = 0
    /\ sampled = <<>>
    /\ localShortcuts = <<>>
    /\ remoteFile = <<>>
    /\ syncResult = <<>>
    /\ BackgroundAtRest

NextType ==
    \/ \E el \in Surfaces : \E v \in TypedType(el) : Edit(el, v)
    \/ \E el \in Surfaces : \E n \in 1..MaxListeners : InputEvent(el, n)
    \/ \E key \in AcceptKeys \cup {"Escape"} : \E k \in 1..MaxListeners : Keydown(key, k)
    \/ \E n \in 1..MaxListeners : ClickPreview(n)

SpecType == InitType /\ [][NextType]_vars

(***************************************************************************)
(* The calculator alone: an expression typed one character at a time and   *)
(* evaluated after every character.                                        *)
(***************************************************************************)

\* the longest expression typed
MaxExprLen == 3

CalcAlphabet == {"1", "2", ".", "+", "*", "-", "(", ")", " ", "x"}

InitCalc ==
    /\ InitType
    /\ expression = ""

\* one more character of the expression, and calculate on the whole
TypeChar(c) ==
    /\ Len(expression) < MaxExprLen
    /\ expression' = expression \o c
    /\ calcResult' = calculate(expression')
    /\ UNCHANGED <<shortcuts, value, caret, active, previewElement, currentMatch,
                   lastHandledValue, lastPolledValue, lastPolledElement, timers,
                   commits, inputEvents, changeEvents, emojiString, sampleCount, sampled,
                   localShortcuts, remoteFile, syncResult, bgVars>>

NextCalc == \E c \in CalcAlphabet : TypeChar(c)

SpecCalc == InitCalc /\ [][NextCalc]_vars

(***************************************************************************)
(* The calculator trigger: a value that holds "/cal:" is typed into the    *)
(* empty text field, handleInput evaluates it, and the user may accept.    *)
(***************************************************************************)

\* the largest operand of the typed expressions
MaxOperand == 3

Operands == {NatToStr(n) : n \in 0..MaxOperand}

BinaryOps == {"+", "-", "*", "/", "%"}

\* sentences of the grammar: up to three operands, parentheses, unary minus, decimals
WellFormedTyped ==
    Operands
    \cup {a \o o \o b : a \in Operands, o \in BinaryOps, b \in Operands}
    \cup {a \o o \o b \o p \o c :
            a \in Operands, o \in BinaryOps, b \in Operands, p \in BinaryOps, c \in Operands}
    \cup {"(" \o a \o o \o b \o ")" \o p \o c :
            a \in Operands, o \in BinaryOps, b \in Operands, p \in BinaryOps, c \in Operands}
    \cup {a \o o \o "(" \o b \o p \o c \o ")" :
            a \in Operands, o \in BinaryOps, b \in Operands, p \in BinaryOps, c \in Operands}
    \cup {"-" \o a \o o \o b : a \in Operands, o \in BinaryOps, b \in Operands}
    \cup {a \o o \o "-" \o b : a \in Operands, o \in BinaryOps, b \in Operands}
    \cup {"-(" \o a \o o \o b \o ")" : a \in Operands, o \in BinaryOps, b \in Operands}
    \cup {d \o o \o b : d \in {"1.5", "0.25"}, o \in BinaryOps, b \in Operands}
    \cup {"--2", " 2 + 3 ", "2 *( 3+1 )", "7/2", "1/32", "5/0"}

\* expressions in which an operand is missing
IncompleteTyped ==
    {a \o o : a \in Operands, o \in BinaryOps}
    \cup {a \o o \o "(" : a \in Operands, o \in BinaryOps}
    \cup {a \o o \o "-" : a \in Operands, o \in BinaryOps}
    \cup {a \o o \o p : a \in Operands, o \in BinaryOps, p \in BinaryOps}
    \cup {a \o o \o ")" : a \in Operands, o \in BinaryOps}
    \cup {"(" \o a \o o \o ")" : a \in Operands, o \in BinaryOps}
    \cup {"(" \o a \o o : a \in Operands, o \in BinaryOps}
    \cup {"-", "(", "20*", "1-", "2*("}

\* values with more than one "/cal:", with text around it, and with a line break
SeveralCalTyped ==
    {"/cal:1+1 /cal:2+2", "/cal:2/cal:3", "a /cal:2*3", "/cal:1\n/cal:3+1", "/cal:2+2 = ",
     "/cal:2+2\n", "/cal:"}

CalTyped ==
    {"/cal:" \o e : e \in WellFormedTyped \cup IncompleteTyped} \cup SeveralCalTyped

\* the argument handleInput passes to calculate for the value v ("" when it makes no call)
calExpression(v) ==
    IF Includes(v, "/cal:") /\ CalMatch(v) # 0 THEN From(v, CalMatch(v) + 5) ELSE ""

\* a store without emoji pools, so that no handler samples
InitEval ==
    /\ Init
    /\ shortcuts = StoreFull

\* the user types v into the empty text field and the 'input' event reaches handleInput;
\* expression and calcResult record the calculate call it makes
TypeCal(v) ==
    /\ value["inp"] = ""
    /\ lastHandledValue = <<>>
    /\ expression' = calExpression(v)
    /\ calcResult' = calculate(expression')
    /\ BecomesPage(handleInput([State EXCEPT !.value["inp"] = v, !.caret["inp"] = Len(v),
                                             !.active = "inp"],
                               "inp", NoRnd))
    /\ UNCHANGED <<emojiString, sampleCount, sampled, localShortcuts, remoteFile,
                   syncResult, bgVars>>

NextEval ==
    \/ \E v \in CalTyped : TypeCal(v)
    \/ \E key \in AcceptKeys : \E k \in 1..MaxListeners : Keydown(key, k)

SpecEval == InitEval /\ [][NextEval]_vars

(***************************************************************************)
(* The filler-text trigger: "/lorem:N" is typed into the empty text field, *)
(* the 'input' event is handled, and the user accepts or cancels.          *)
(***************************************************************************)

\* the largest count typed, apart from the counts at the word limit
MaxWords == 140

LoremCounts == (0..MaxWords) \cup {LoremMax, LoremMax + 1}

LoremTyped ==
    {"/lorem:" \o NatToStr(n) : n \in LoremCounts}
    \cup {"a /lorem:3", "/lorem:007", "/lorem:01001", "/lorem"}

InitLorem == InitEval

\* the user types v into the empty text field; no handler has run yet
TypeLorem(v) ==
    /\ value["inp"] = ""
    /\ lastHandledValue = <<>>
    /\ Edit("inp", v)

NextLorem ==
    \/ \E v \in LoremTyped : TypeLorem(v)
    \/ \E n \in 1..MaxListeners : InputEvent("inp", n)
    \/ \E key \in AcceptKeys \cup {"Escape"} : \E k \in 1..MaxListeners : Keydown(key, k)

SpecLorem == InitLorem /\ [][NextLorem]_vars

(***************************************************************************)
(* The sampler alone: getRandomEmojis on a pool string and a count.        *)
(***************************************************************************)

\* the largest count passed to the sampler
MaxSample == 3

\* the values of Math.floor(Math.random() * emojis.length) run from 0 to MaxIndex
MaxIndex == 2

\* pool strings: empty or absent (""), emoji only, emoji with a modifier, two emoji
\* joined into one sequence, no emoji at all (joiner and letter), emoji between a letter,
\* a space and a digit, white space
Pools == {"", "@", "@&", "@~&", "@^&", "&#", "^x", "a@ 1", " "}

SampleTapes == [1..MaxSample -> 0..MaxIndex]

InitEmoji ==
    /\ shortcuts = StoreType
    /\ value = [el \in Surfaces |-> ""]
    /\ caret = [el \in Surfaces |-> 0]
    /\ active = "body"
    /\ previewElement = <<>>
    /\ currentMatch = <<>>
    /\ lastHandledValue = <<>>
    /\ lastPolledValue = ""
    /\ lastPolledElement = "null"
    /\ timers = [el \in Surfaces |-> 0]
    /\ commits = 0
    /\ inputEvents = 0
    /\ changeEvents = 0
    /\ expression = ""
    /\ calcResult = CalcNull
    /\ emojiString \in Pools
    /\ sampleCount \in (-1)..MaxSample
    /\ sampled = <<>>
    /\ localShortcuts = <<>>
    /\ remoteFile = <<>>
    /\ syncResult = <<>>
    /\ BackgroundAtRest

\* one call getRandomEmojis(emojiString, sampleCount) with the random values of rnd
Sample(rnd) ==
    /\ sampled = <<>>
    /\ sampled' = <<getRandomEmojis(emojiString, sampleCount, rnd)>>
    /\ UNCHANGED <<shortcuts, value, caret, active, previewElement, currentMatch,
                   lastHandledValue, lastPolledValue, lastPolledElement, timers,
                   commits, inputEvents, changeEvents, expression, calcResult,
                   emojiString, sampleCount, localShortcuts, remoteFile, syncResult, bgVars>>

NextEmoji == \E rnd \in SampleTapes : Sample(rnd)

SpecEmoji == InitEmoji /\ [][NextEmoji]_vars

(***************************************************************************)
(* Synchronisation of the store with the file of the repository            *)
(***************************************************************************)
\* `shortcut.emojis || ''`: a definition without the field counts as one with ''
emojisOrEmpty(shortcut) ==
    IF "emojis" \in DOMAIN shortcut THEN shortcut.emojis ELSE ""

\* a faulty comparison that only counts the keys
hasChangesByCount(oldShortcuts, newShortcuts) ==
    Cardinality(DOMAIN oldShortcuts) # Cardinality(DOMAIN newShortcuts)

\* whether two sets of definitions differ, as far as sync looks
hasChanges(oldShortcuts, newShortcuts) ==
    \/ Cardinality(DOMAIN oldShortcuts) # Cardinality(DOMAIN newShortcuts)
    \/ \E key \in DOMAIN oldShortcuts :
          \/ key \notin DOMAIN newShortcuts
          \/ oldShortcuts[key].text # newShortcuts[key].text
          \/ emojisOrEmpty(oldShortcuts[key]) # emojisOrEmpty(newShortcuts[key])
    \/ \E key \in DOMAIN newShortcuts : key \notin DOMAIN oldShortcuts

\* { ...remote } with every key of local assigned over it
mergeShortcuts(remote, local) ==
    [key \in DOMAIN remote \cup DOMAIN local |->
        IF key \in DOMAIN local THEN local[key] ELSE remote[key]]

\* what sync resolves to when pull or push did not succeed
syncFailed == [success |-> FALSE, action |-> "failed"]

\* sync(localShortcuts) against the file `file` of the repository; pullOk and pushOk say
\* whether the two requests succeed. The file holds JSON.stringify of the definitions
\* and pull parses it back: an object of string fields comes back as it was, so the
\* content is kept as the definitions themselves. The result and the file afterwards.
sync(local, file, pullOk, pushOk) ==
    IF ~pullOk THEN [result |-> syncFailed, file |-> file]
    ELSE IF file = <<>>
    THEN IF pushOk
         THEN [result |-> [success |-> TRUE, action |-> "created", data |-> local],
               file |-> <<local>>]
         ELSE [result |-> syncFailed, file |-> file]
    ELSE IF ~hasChanges(file[1], local)
    THEN [result |-> [success |-> TRUE, action |-> "no_changes", data |-> file[1]],
          file |-> file]
    ELSE IF ~hasChanges(file[1], mergeShortcuts(file[1], local))
    THEN [result |-> [success |-> TRUE, action |-> "no_changes", data |-> file[1]],
          file |-> file]
    ELSE IF pushOk
    THEN [result |-> [success |-> TRUE, action |-> "synced",
                      data |-> mergeShortcuts(file[1], local)],
          file |-> <<mergeShortcuts(file[1], local)>>]
    ELSE [result |-> syncFailed, file |-> file]

\* trigger keys and definitions of the stores that are synchronised: a definition as the
\* form saves it (text and emojis, the emojis possibly ''), and one without the field
SyncKeys == {"/a", "/b"}

SyncDefinitions ==
    {[text |-> "x", emojis |-> ""], [text |-> "x"], [text |-> "y", emojis |-> "@"]}

SyncStores == UNION {[keys -> SyncDefinitions] : keys \in SUBSET SyncKeys}

InitSync ==
    /\ shortcuts = StoreFull
    /\ value = [el \in Surfaces |-> ""]
    /\ caret = [el \in Surfaces |-> 0]
    /\ active = "body"
    /\ previewElement = <<>>
    /\ currentMatch = <<>>
    /\ lastHandledValue = <<>>
    /\ lastPolledValue = ""
    /\ lastPolledElement = "null"
    /\ timers = [el \in Surfaces |-> 0]
    /\ commits = 0
    /\ inputEvents = 0
    /\ changeEvents = 0
    /\ expression = ""
    /\ calcResult = CalcNull
    /\ emojiString = ""
    /\ sampleCount = 0
    /\ sampled = <<>>
    /\ localShortcuts \in SyncStores
    /\ remoteFile \in {<<>>} \cup {<<remote>> : remote \in SyncStores}
    /\ syncResult = <<>>
    /\ BackgroundAtRest

\* one call sync(localShortcuts)
Sync(pullOk, pushOk) ==
    /\ syncResult = <<>>
    /\ syncResult' = <<sync(localShortcuts, remoteFile, pullOk, pushOk).result>>
    /\ remoteFile' = sync(localShortcuts, remoteFile, pullOk, pushOk).file
    /\ UNCHANGED <<shortcuts, value, caret, active, previewElement, currentMatch,
                   lastHandledValue, lastPolledValue, lastPolledElement, timers,
                   commits, inputEvents, changeEvents, expression, calcResult,
                   emojiString, sampleCount, sampled, localShortcuts, bgVars>>

NextSync == \E pullOk \in BOOLEAN, pushOk \in BOOLEAN : Sync(pullOk, pushOk)

SpecSync == InitSync /\ [][NextSync]_vars

(***************************************************************************)
(* The background service worker and the popup's save and delete           *)
(***************************************************************************)
\* the variables of the content script and of the evaluator and sampler runs
pageVars ==
    <<shortcuts, value, caret, active, previewElement, currentMatch, lastHandledValue,
      lastPolledValue, lastPolledElement, timers, commits, inputEvents, changeEvents,
      expression, calcResult, emojiString, sampleCount, sampled>>

\* {}
EmptyStore == [key \in {} |-> [text |-> ""]]

\* `result.shortcuts || {}`, and pull's data
shortcutsOrEmpty(stored) == IF stored = <<>> THEN EmptyStore ELSE stored[1]

\* settings.enabled of `syncSettings || {}`
syncEnabled(settings) == settings # <<>> /\ settings[1].enabled

\* settings.enabled && settings.autoSync
autoSyncEnabled(settings) == syncEnabled(settings) /\ settings[1].autoSync

\* the syncSettings the install handler writes; lastSync 0 stands for null
DefaultSettings == [enabled |-> FALSE, autoSync |-> FALSE, lastSync |-> 0]

\* time stamps told apart
MaxStamp == 1

\* new Date().toISOString(): the stamp after the one stored
newStamp(settings) == IF settings = <<>> THEN 1 ELSE 1 + (settings[1].lastSync % MaxStamp)

\* pending callbacks of the onChanged listener
MaxAutoTimers == 2

\* shortcuts[key] = shortcut
withShortcut(store, key, shortcut) ==
    [k \in DOMAIN store \cup {key} |-> IF k = key THEN shortcut ELSE store[k]]

\* delete shortcuts[key]
withoutShortcut(store, key) == [k \in DOMAIN store \ {key} |-> store[k]]

\* chrome.storage.local.set({shortcuts}) followed by the onChanged listener of the
\* service worker: a set that changes the stored value schedules performAutoSync when
\* sync is enabled with autoSync
SetShortcuts(new) ==
    /\ storedShortcuts' = <<new>>
    /\ autoTimers' = IF <<new>> # storedShortcuts /\ autoSyncEnabled(syncSettings)
                     THEN autoTimers + 1
                     ELSE autoTimers

\* the listener can schedule one more callback, also after the write-back of the sync in
\* flight
RoomForTimer == autoTimers + (IF job.pc = "idle" THEN 0 ELSE 1) < MaxAutoTimers

\* the shortcut objects the form of the popup builds: text and emojis, both strings
FormDefinitions == {shortcut \in SyncDefinitions : "emojis" \in DOMAIN shortcut}

\* the shortcuts the user saves: two for the first key and one for the second
SavedShortcuts ==
    {<<key, shortcut>> \in SyncKeys \X FormDefinitions : key = "/a" \/ shortcut.emojis # ""}

\* the stores of the browser and the files of the repository at the start: the second key
\* has the one shortcut
BackgroundStores ==
    {store \in SyncStores :
        \A key \in DOMAIN store : key = "/a" \/ <<key, store[key]>> \in SavedShortcuts}

\* saveShortcut of the popup; pushes says whether its own pull and push to the repository
\* are made and succeed
SaveShortcut(key, shortcut, pushes) ==
    /\ RoomForTimer
    /\ pushes => syncEnabled(syncSettings)
    /\ SetShortcuts(withShortcut(shortcutsOrEmpty(storedShortcuts), key, shortcut))
    /\ IF pushes
       THEN /\ remoteFile' = <<withShortcut(shortcutsOrEmpty(remoteFile), key, shortcut)>>
            /\ syncSettings' = <<[syncSettings[1] EXCEPT !.lastSync = newStamp(syncSettings)]>>
       ELSE UNCHANGED <<remoteFile, syncSettings>>
    /\ deletedKeys' = deletedKeys \ {key}
    /\ UNCHANGED <<pageVars, localShortcuts, syncResult, job, installing, lastPush>>

\* deleteShortcut of the popup; fromGitHub says whether the delete on GitHub was chosen
\* and its pull and push succeed
DeleteShortcut(key, fromGitHub) ==
    /\ RoomForTimer
    /\ key \in DOMAIN shortcutsOrEmpty(storedShortcuts)
    /\ fromGitHub => syncEnabled(syncSettings) /\ remoteFile # <<>>
    /\ SetShortcuts(withoutShortcut(shortcutsOrEmpty(storedShortcuts), key))
    /\ IF fromGitHub
       THEN /\ remoteFile' = <<withoutShortcut(remoteFile[1], key)>>
            /\ syncSettings' = <<[syncSettings[1] EXCEPT !.lastSync = newStamp(syncSettings)]>>
       ELSE UNCHANGED <<remoteFile, syncSettings>>
    /\ deletedKeys' = IF fromGitHub THEN deletedKeys \ {key} ELSE deletedKeys \cup {key}
    /\ UNCHANGED <<pageVars, localShortcuts, syncResult, job, installing, lastPush>>

\* the locals of a call of performSync or performAutoSync at its start
Job(fn, settings) ==
    [pc |-> "pull", fn |-> fn, settings |-> settings, sha |-> <<>>,
     toPush |-> EmptyStore, action |-> ""]

\* performSync (from the alarm through checkAndSync, or from the syncNow message) up to
\* its call of sync: it reads the local shortcuts
StartPerformSync ==
    /\ job.pc = "idle"
    /\ syncEnabled(syncSettings)
    /\ autoTimers < MaxAutoTimers
    /\ localShortcuts' = shortcutsOrEmpty(storedShortcuts)
    /\ job' = Job("performSync", syncSettings)
    /\ syncResult' = <<>>
    /\ lastPush' = <<>>
    /\ UNCHANGED <<pageVars, remoteFile, storedShortcuts, syncSettings, autoTimers, installing,
                   deletedKeys>>

\* a setTimeout callback of the onChanged listener: performAutoSync up to its call of sync
StartPerformAutoSync ==
    /\ job.pc = "idle"
    /\ autoTimers > 0
    /\ autoTimers' = autoTimers - 1
    /\ localShortcuts' = shortcutsOrEmpty(storedShortcuts)
    /\ job' = Job("performAutoSync", syncSettings)
    /\ syncResult' = <<>>
    /\ lastPush' = <<>>
    /\ UNCHANGED <<pageVars, remoteFile, storedShortcuts, syncSettings, installing, deletedKeys>>

\* sync after its pull succeeded with the file `file`: the push it goes on to, or the
\* result it returns without one
syncAfterPull(j, local, file) ==
    IF file = <<>>
    THEN [job |-> [j EXCEPT !.pc = "push", !.sha = file, !.toPush = local,
                            !.action = "created"],
          result |-> <<>>]
    ELSE IF \/ ~hasChanges(file[1], local)
            \/ ~hasChanges(file[1], mergeShortcuts(file[1], local))
    THEN [job |-> [j EXCEPT !.pc = "write", !.sha = file],
          result |-> <<[success |-> TRUE, action |-> "no_changes", data |-> file[1]]>>]
    ELSE [job |-> [j EXCEPT !.pc = "push", !.sha = file,
                            !.toPush = mergeShortcuts(file[1], local),
                            !.action = "synced"],
          result |-> <<>>]

\* the pull of sync resolves; ok says whether the request succeeded.  The sha of the file
\* is the hash of its content, so the content stands for it
PullResolves(ok) ==
    /\ job.pc = "pull"
    /\ IF ok
       THEN /\ job' = syncAfterPull(job, localShortcuts, remoteFile).job
            /\ syncResult' = syncAfterPull(job, localShortcuts, remoteFile).result
       ELSE /\ job' = [job EXCEPT !.pc = "write"]
            /\ syncResult' = <<syncFailed>>
    /\ UNCHANGED <<pageVars, localShortcuts, remoteFile, storedShortcuts, syncSettings,
                   autoTimers, installing, lastPush, deletedKeys>>

\* the push of sync resolves; GitHub takes the content when the request succeeds and the
\* sha sent is the one of the file as it is now (none when there is no file)
PushResolves(ok) ==
    /\ job.pc = "push"
    /\ lastPush' = <<[content |-> job.toPush, sha |-> job.sha]>>
    /\ IF ok /\ remoteFile = job.sha
       THEN /\ remoteFile' = <<job.toPush>>
            /\ syncResult' =
                   <<[success |-> TRUE, action |-> job.action, data |-> job.toPush]>>
       ELSE /\ remoteFile' = remoteFile
            /\ syncResult' = <<syncFailed>>
    /\ job' = [job EXCEPT !.pc = "write"]
    /\ UNCHANGED <<pageVars, localShortcuts, storedShortcuts, syncSettings, autoTimers,
                   installing, deletedKeys>>

\* a faulty write-back that does not look at success
storesBackAlways(fn, result) == TRUE

\* whether the function fn stores the data of the result back
storesBack(fn, result) ==
    /\ result.success
    /\ fn = "performSync" \/ result.action \in {"synced", "no_changes"}

\* a faulty write-back of the shortcuts read at the start
dataOfLocal(result, local) == local

\* the data to store back: the data of the result, and for a failed sync the shortcuts read
\* at the start
dataOf(result, local) == IF result.success THEN result.data ELSE local

\* performSync or performAutoSync after sync returned: the write-back of the data when it
\* differs from the stored shortcuts, and in performSync the new lastSync; the call and
\* its locals end
SyncReturns ==
    /\ job.pc = "write"
    /\ IF /\ storesBack(job.fn, syncResult[1])
          /\ shortcutsOrEmpty(storedShortcuts) # dataOf(syncResult[1], localShortcuts)
       THEN SetShortcuts(dataOf(syncResult[1], localShortcuts))
       ELSE UNCHANGED <<storedShortcuts, autoTimers>>
    /\ IF storesBack(job.fn, syncResult[1]) /\ job.fn = "performSync"
       THEN syncSettings' = <<[job.settings[1] EXCEPT !.lastSync = newStamp(syncSettings)]>>
       ELSE UNCHANGED syncSettings
    /\ job' = NoJob
    /\ localShortcuts' = EmptyStore
    /\ syncResult' = <<>>
    /\ lastPush' = <<>>
    /\ UNCHANGED <<pageVars, remoteFile, installing, deletedKeys>>

\* the onInstalled handler up to its set, run while no sync is in flight: what it found
\* missing
InstallReads ==
    /\ installing = <<>>
    /\ job.pc = "idle"
    /\ installing' = <<[shortcuts |-> storedShortcuts = <<>>,
                        syncSettings |-> syncSettings = <<>>]>>
    /\ UNCHANGED <<pageVars, localShortcuts, remoteFile, syncResult, storedShortcuts,
                   syncSettings, job, autoTimers, lastPush, deletedKeys>>

\* a faulty handler that takes every key for missing
installMissingAll(found) == [shortcuts |-> TRUE, syncSettings |-> TRUE]

\* initialValues of the handler: the keys it sets
installMissing(found) == found

\* chrome.storage.local.set(initialValues) of the handler
InstallSets ==
    /\ installing # <<>>
    /\ RoomForTimer
    /\ IF installMissing(installing[1]).shortcuts
       THEN SetShortcuts(EmptyStore)
       ELSE UNCHANGED <<storedShortcuts, autoTimers>>
    /\ IF installMissing(installing[1]).syncSettings
       THEN syncSettings' = <<DefaultSettings>>
       ELSE UNCHANGED syncSettings
    /\ installing' = <<>>
    /\ UNCHANGED <<pageVars, localShortcuts, remoteFile, syncResult, job, lastPush, deletedKeys>>

\* the stored settings at the start: missing, or with sync and autoSync on or off
InitSettings ==
    {<<>>} \cup {<<[enabled |-> e, autoSync |-> a, lastSync |-> 0]>> :
                    e \in BOOLEAN, a \in BOOLEAN}

InitBackground ==
    /\ shortcuts = StoreFull
    /\ value = [el \in Surfaces |-> ""]
    /\ caret = [el \in Surfaces |-> 0]
    /\ active = "body"
    /\ previewElement = <<>>
    /\ currentMatch = <<>>
    /\ lastHandledValue = <<>>
    /\ lastPolledValue = ""
    /\ lastPolledElement = "null"
    /\ timers = [el \in Surfaces |-> 0]
    /\ commits = 0
    /\ inputEvents = 0
    /\ changeEvents = 0
    /\ expression = ""
    /\ calcResult = CalcNull
    /\ emojiString = ""
    /\ sampleCount = 0
    /\ sampled = <<>>
    /\ localShortcuts = EmptyStore
    /\ syncResult = <<>>
    /\ remoteFile \in {<<>>} \cup {<<remote>> : remote \in BackgroundStores}
    /\ storedShortcuts \in {<<>>} \cup {<<stored>> : stored \in BackgroundStores}
    /\ syncSettings \in InitSettings
    /\ job = NoJob
    /\ autoTimers = 0
    /\ installing = <<>>
    /\ lastPush = <<>>
    /\ deletedKeys = {}

NextBackground ==
    \/ \E saved \in SavedShortcuts, pushes \in BOOLEAN :
          SaveShortcut(saved[1], saved[2], pushes)
    \/ \E key \in SyncKeys, fromGitHub \in BOOLEAN : DeleteShortcut(key, fromGitHub)
    \/ StartPerformSync
    \/ StartPerformAutoSync
    \/ \E ok \in BOOLEAN : PullResolves(ok)
    \/ \E ok \in BOOLEAN : PushResolves(ok)
    \/ SyncReturns
    \/ InstallReads
    \/ InstallSets

SpecBackground == InitBackground /\ [][NextBackground]_vars

\* the service worker right after a change of the stored shortcuts with sync enabled and
\* autoSync on: the onChanged listener has scheduled performAutoSync
InitAutoSync ==
    /\ shortcuts = StoreFull
    /\ value = [el \in Surfaces |-> ""]
    /\ caret = [el \in Surfaces |-> 0]
    /\ active = "body"
    /\ previewElement = <<>>
    /\ currentMatch = <<>>
    /\ lastHandledValue = <<>>
    /\ lastPolledValue = ""
    /\ lastPolledElement = "null"
    /\ timers = [el \in Surfaces |-> 0]
    /\ commits = 0
    /\ inputEvents = 0
    /\ changeEvents = 0
    /\ expression = ""
    /\ calcResult = CalcNull
    /\ emojiString = ""
    /\ sampleCount = 0
    /\ sampled = <<>>
    /\ localShortcuts = EmptyStore
    /\ syncResult = <<>>
    /\ remoteFile \in {<<>>} \cup {<<remote>> : remote \in BackgroundStores}
    /\ storedShortcuts \in {<<stored>> : stored \in BackgroundStores}
    /\ syncSettings = <<[enabled |-> TRUE, autoSync |-> TRUE, lastSync |-> 0]>>
    /\ job = NoJob
    /\ autoTimers = 1
    /\ installing = <<>>
    /\ lastPush = <<>>
    /\ deletedKeys = {}

\* the service worker left alone: no edit by the user, no edit of the repository
NextAutoSync ==
    \/ StartPerformAutoSync
    \/ \E ok \in BOOLEAN : PullResolves(ok)
    \/ \E ok \in BOOLEAN : PushResolves(ok)
    \/ SyncReturns

\* timers fire, requests resolve and the awaits of the service worker continue
SpecAutoSync == InitAutoSync /\ [][NextAutoSync]_vars /\ WF_vars(NextAutoSync)

(***************************************************************************)
(* The deferred re-evaluation of handleKeydown on calculator values        *)
(***************************************************************************)
\* values of the text field: complete and incomplete expressions, an expression with
\* blanks around it, values with several "/cal:", and a static trigger
TimerTyped ==
    SeveralCalTyped \cup {"/cal:2+2", "/cal:2+", "/cal: 2*3 ", "/cal:(1+1)*2", "/ty"}

TimerKeys == {"*", "Escape", "Tab"}

InitTimer == InitEval

NextTimer ==
    \/ \E v \in TimerTyped : Edit("inp", v)
    \/ InputEvent("inp", 1)
    \/ \E key \in TimerKeys : Keydown(key, 1)
    \/ TimerFire("inp")

SpecTimer == InitTimer /\ [][NextTimer]_vars

(***************************************************************************)
(* Properties                                                              *)
(***************************************************************************)

\* an accept action: a Tab or Enter keydown, or a click on the preview
AcceptAction ==
    \/ \E key \in AcceptKeys : \E k \in 1..MaxListeners : Keydown(key, k)
    \/ \E n \in 1..MaxListeners : ClickPreview(n)

\* a cancel action: an Escape keydown, or a click outside the preview
CancelAction ==
    \/ \E k \in 1..MaxListeners : Keydown("Escape", k)
    \/ \E where \in Surfaces \cup {"body"} : ClickOutside(where)

\* the user's own change of a surface
UserEdit == \E el \in Surfaces : Edit(el, value'[el])

\* where the trigger that handleInput recognises in v starts
TriggerStart(v) ==
    IF Includes(v, "/cal:") /\ CalMatch(v) # 0 THEN CalMatch(v)
    ELSE IF MatchWithCount(v) # <<>> THEN MatchWithCount(v)[1]
    ELSE MatchWithoutCount(v)

\* whether the literal span of candidate m occurs in v: from "/cal:" for the calculator,
\* key:count for a count-bearing trigger, the key for a count-less one
SpanPresent(m, v) ==
    IF m.shortcutKey = "/cal" THEN Includes(v, "/cal:")
    ELSE IF m.hasCount THEN Includes(v, m.shortcutKey \o ":" \o NatToStr(m.count))
    ELSE Includes(v, m.shortcutKey)

\* C1: from a state with a pending candidate and its preview shown, an accept action
\* runs replaceShortcut exactly once, whatever the number of listeners, and leaves the
\* session Idle (currentMatch null, no preview)
C1_AcceptCommitsOnceThenIdle ==
    [][(currentMatch # <<>> /\ previewElement # <<>> /\ AcceptAction)
        => (commits' = 1 /\ currentMatch' = <<>> /\ previewElement' = <<>>)]_vars

\* C2: from a state with a pending candidate, a cancel action discards candidate and
\* preview and leaves every surface's value and caret as they were
C2_CancelDiscardsCandidate ==
    [][(currentMatch # <<>> /\ CancelAction)
        => (/\ currentMatch' = <<>>
            /\ previewElement' = <<>>
            /\ value' = value
            /\ caret' = caret)]_vars

\* C3: a surface's value changes only by the user's own edit or inside a commit started
\* by an accept action; handleInput, the poll, the deferred re-evaluation, a store
\* change and the cancel paths never run a commit and leave all values unchanged
C3_OnlyCommitWritesValue ==
    [][/\ (value' # value) => (UserEdit \/ (commits' > 0 /\ AcceptAction))
       /\ (commits' > 0) => AcceptAction]_vars

\* a cancel path has run on a surface that still holds its trigger: nothing was
\* committed and the value is the typed one
C3_Witness ==
    /\ value["inp"] = "/ty"
    /\ lastHandledValue = <<"/ty">>
    /\ previewElement = <<>>
    /\ currentMatch = <<>>
    /\ commits = 0

\* C4: when the value handleInput processed contains "/cal:", a candidate it produces
\* is a Calculator candidate, never a Static or Generator one
C4_CalNeverFallsThrough ==
    [][(/\ currentMatch' # <<>>
        /\ currentMatch' # currentMatch
        /\ lastHandledValue' # <<>>
        /\ Includes(lastHandledValue'[1], "/cal:"))
        => currentMatch'[1].shortcutKey = "/cal"]_vars

\* C5: a successful commit (replaceShortcut ran and dispatched its events) on the value
\* that produced the candidate replaces the trigger at the end of that value: the new
\* value is the text before the trigger followed by finalText, and earlier text is
\* untouched
C5_CommitReplacesLastTyped ==
    [][(/\ currentMatch # <<>>
        /\ previewElement # <<>>
        /\ lastHandledValue = <<getValue(State, currentMatch[1].target)>>
        /\ commits' > 0
        /\ inputEvents' > 0)
        => LET m == currentMatch[1]
               cur == getValue(State, m.target)
           IN  value'[m.target] =
                   Before(cur, TriggerStart(cur)) \o finalTextOf(State, m, NoRnd)]_vars

\* C6: for a definition without emoji pool, matching and accepting a trigger /key or
\* /key:N gives the original value with the whole typed trigger replaced by the
\* definition's text
C6_StaticRoundTrip ==
    [][(/\ currentMatch # <<>>
        /\ previewElement # <<>>
        /\ HasShortcut(shortcuts, currentMatch[1].shortcutKey)
        /\ shortcuts[currentMatch[1].shortcutKey].emojis = ""
        /\ lastHandledValue = <<getValue(State, currentMatch[1].target)>>
        /\ commits' > 0)
        => LET m == currentMatch[1]
               cur == getValue(State, m.target)
           IN  value'[m.target] =
                   Before(cur, TriggerStart(cur)) \o shortcuts[m.shortcutKey].text]_vars

\* C7: after a successful commit the caret of the target is at the start index of the
\* replaced span plus the length of finalText: the new value is the old one with some
\* span starting at i replaced by finalText, and the caret is right after it
C7_CaretAfterInsertedText ==
    [][(currentMatch # <<>> /\ previewElement # <<>> /\ commits' > 0 /\ inputEvents' > 0)
        => LET m == currentMatch[1]
               cur == getValue(State, m.target)
               finalText == finalTextOf(State, m, NoRnd)
               inserted == IF m.fullText # "" THEN Len(m.fullText) ELSE Len(finalText)
           IN  \E i \in 1..(Len(cur) + 1) : \E j \in i..(Len(cur) + 1) :
                   /\ Before(value'[m.target], i) = Before(cur, i)
                   /\ From(value'[m.target], i + inserted) = From(cur, j)
                   /\ Len(value'[m.target]) = (i - 1) + inserted + (Len(cur) + 1 - j)
                   /\ caret'[m.target] = (i - 1) + inserted]_vars

\* a commit has replaced "/ty" in the middle of the value: the caret is after the
\* inserted text and before the rest
C7_Witness ==
    /\ commits = 1
    /\ inputEvents > 0
    /\ value["inp"] = "ty! b"
    /\ caret["inp"] = 3

\* C8: when the literal span of the candidate is no longer in the surface's value at
\* accept time, the commit changes no value and no caret, dispatches no input or change
\* event, and clears candidate and preview
C8_VanishedSpanIsNoOp ==
    [][(/\ currentMatch # <<>>
        /\ previewElement # <<>>
        /\ commits' > 0
        /\ ~SpanPresent(currentMatch[1], getValue(State, currentMatch[1].target)))
        => (/\ value' = value
            /\ caret' = caret
            /\ inputEvents' = 0
            /\ changeEvents' = 0
            /\ currentMatch' = <<>>
            /\ previewElement' = <<>>)]_vars

RECURSIVE GrammarTokens(_, _)
GrammarTokens(s, i) ==
    IF i > Len(s) THEN <<>>
    ELSE IF IsDigit(Ch(s, i))
         THEN LET e == DigitRunEnd(s, i)
                  f == IF e + 2 <= Len(s) /\ Ch(s, e + 1) = "." /\ IsDigit(Ch(s, e + 2))
                       THEN DigitRunEnd(s, e + 2) ELSE e
              IN  <<SubSeq(s, i, f)>> \o GrammarTokens(s, f + 1)
    ELSE IF IsOperator(Ch(s, i)) THEN <<Ch(s, i)>> \o GrammarTokens(s, i + 1)
    ELSE IF IsSpace(Ch(s, i)) THEN GrammarTokens(s, i + 1)
    ELSE <<"?">> \o GrammarTokens(s, i + 1)

RECURSIVE IsExpr(_, _, _)
RECURSIVE IsTerm(_, _, _)
RECURSIVE IsFactor(_, _, _)

\* factor := NUMBER | '(' expr ')' | '-' factor, for the tokens i..j of t
IsFactor(t, i, j) ==
    /\ i <= j
    /\ \/ i = j /\ IsDigit(Ch(t[i], 1))
       \/ i + 1 < j /\ t[i] = "(" /\ t[j] = ")" /\ IsExpr(t, i + 1, j - 1)
       \/ i < j /\ t[i] = "-" /\ IsFactor(t, i + 1, j)

\* term := factor (('*'|'/'|'%') factor)*
IsTerm(t, i, j) ==
    \/ IsFactor(t, i, j)
    \/ \E k \in (i + 1)..(j - 1) :
           t[k] \in {"*", "/", "%"} /\ IsTerm(t, i, k - 1) /\ IsFactor(t, k + 1, j)

\* expr := term (('+'|'-') term)*
IsExpr(t, i, j) ==
    \/ IsTerm(t, i, j)
    \/ \E k \in (i + 1)..(j - 1) :
           t[k] \in {"+", "-"} /\ IsExpr(t, i, k - 1) /\ IsTerm(t, k + 1, j)

\* s is a complete sentence of the grammar
IsSentence(s) == IsExpr(GrammarTokens(s, 1), 1, Len(GrammarTokens(s, 1)))

\* C10: calculate returns null exactly when the sanitized string is empty, holds no
\* digit, or is not a complete sentence of the grammar expr / term / factor
C10_NullIffNotDerivable ==
    LET sanitized == Trim(Sanitize(expression))
    IN  (calcResult = CalcNull)
        <=> \/ sanitized = ""
            \/ ~\E i \in 1..Len(sanitized) : IsDigit(Ch(sanitized, i))
            \/ ~IsSentence(sanitized)

(***************************************************************************)
(* The value of a sentence by the grammar: the parse is the derivation     *)
(* expr / term / factor itself, the arithmetic is the host's, and a        *)
(* division by zero gives positive infinity.                               *)
(***************************************************************************)
RECURSIVE ExprValue(_, _, _)
RECURSIVE TermValue(_, _, _)
RECURSIVE FactorValue(_, _, _)

\* the value of the factor t[i..j]
FactorValue(t, i, j) ==
    IF i = j THEN ParseFloat(t[i])
    ELSE IF t[i] = "(" THEN ExprValue(t, i + 1, j - 1)
    ELSE Neg(FactorValue(t, i + 1, j))

\* the value of the term t[i..j]: its last '*', '/' or '%' is applied last
TermValue(t, i, j) ==
    IF IsFactor(t, i, j) THEN FactorValue(t, i, j)
    ELSE LET k == CHOOSE k \in (i + 1)..(j - 1) :
                      t[k] \in {"*", "/", "%"} /\ IsTerm(t, i, k - 1) /\ IsFactor(t, k + 1, j)
             l == TermValue(t, i, k - 1)
             r == FactorValue(t, k + 1, j)
         IN  IF t[k] = "*" THEN Mul(l, r)
             ELSE IF t[k] = "%" THEN Mod(l, r)
             ELSE IF IsZero(r) THEN PosInf
             ELSE Quot(l, r)

\* the value of the expression t[i..j]: its last binary '+' or '-' is applied last
ExprValue(t, i, j) ==
    IF IsTerm(t, i, j) THEN TermValue(t, i, j)
    ELSE LET k == CHOOSE k \in (i + 1)..(j - 1) :
                      t[k] \in {"+", "-"} /\ IsExpr(t, i, k - 1) /\ IsTerm(t, k + 1, j)
             l == ExprValue(t, i, k - 1)
             r == TermValue(t, k + 1, j)
         IN  IF t[k] = "+" THEN Add(l, r) ELSE Sub(l, r)

\* the value of the sentence s
SentenceValue(s) == ExprValue(GrammarTokens(s, 1), 1, Len(GrammarTokens(s, 1)))

\* C11: for a well-formed expression whose value is finite and whole, calculate returns
\* the value the grammar gives it: '*', '/' and '%' before '+' and '-', binary operators
\* from the left, parentheses first, unary minus before any binary operator
C11_StandardValue ==
    (expression # "" /\ IsSentence(expression) /\ IsInteger(SentenceValue(expression)))
    => calcResult = SentenceValue(expression)

\* calculate has returned 9 for "(2+1)*3" (parentheses before the product)
C11_Witness ==
    /\ expression = "(2+1)*3"
    /\ calcResult = Fin(9, 1)
    /\ currentMatch # <<>>
    /\ currentMatch[1].fullText = "9"

\* C12: for a well-formed expression calculate returns 'Error' exactly when its value,
\* with a division by zero taken as positive infinity, is infinite or not a number, and
\* then never null or a number; the Calculator candidate handleInput builds from an
\* 'Error' result has the expansion "Error"
C12_NonFiniteIsError ==
    /\ (expression # "" /\ IsSentence(expression))
        => ((SentenceValue(expression).k # "fin") <=> (calcResult = CalcError))
    /\ (calcResult = CalcError /\ Includes(value["inp"], "/cal:"))
        => /\ currentMatch # <<>>
           /\ currentMatch[1].shortcutKey = "/cal"
           /\ currentMatch[1].fullText = "Error"

\* "1/0" has been typed after "/cal:": the result is 'Error' and so is the expansion
C12_Witness ==
    /\ expression = "1/0"
    /\ calcResult = CalcError
    /\ currentMatch # <<>>
    /\ currentMatch[1].fullText = "Error"
    /\ previewElement = <<[text |-> "1/0 = Error"]>>

\* an expression in which a binary operator or a unary minus lacks its operand: the
\* operator is the last token or is followed by ')' or by a binary-only operator, or the
\* expression ends with '('
LacksOperand(s) ==
    LET t == GrammarTokens(s, 1)
    IN  /\ t # <<>>
        /\ \A k \in 1..Len(t) : t[k] # "?"
        /\ \/ t[Len(t)] = "("
           \/ \E k \in 1..Len(t) :
                  /\ t[k] \in BinaryOps
                  /\ k = Len(t) \/ t[k + 1] \in {")", "+", "*", "/", "%"}

\* C13: for an expression in which an operator lacks its operand calculate returns null,
\* never 'Error' or a number, and handleInput produces a Calculator candidate with an
\* empty expansion and the in-progress preview
C13_IncompleteIsNull ==
    (expression # "" /\ LacksOperand(expression))
    => /\ calcResult = CalcNull
       /\ Includes(value["inp"], "/cal:")
           => /\ currentMatch # <<>>
              /\ currentMatch[1].shortcutKey = "/cal"
              /\ currentMatch[1].fullText = ""
              /\ previewElement = <<[text |-> "# " \o expression \o " = ..."]>>

\* C14: for a well-formed expression with a finite value x, calculate returns x itself
\* as an integer-valued number when x is whole, and otherwise a number with at most four
\* decimal places that is nearest to x (within 0.00005)
C14_WholeOrFourPlaces ==
    (expression # "" /\ IsSentence(expression) /\ SentenceValue(expression).k = "fin")
    => LET x == SentenceValue(expression)
       IN  IF x.d = 1
           THEN calcResult = x
           ELSE /\ calcResult.k = "fin"
                /\ 10000 % calcResult.d = 0
                /\ 20000 * Abs(calcResult.n * x.d - x.n * calcResult.d)
                       <= calcResult.d * x.d

\* "2/3" has been evaluated to 0.6667, the expansion of the candidate
C14_Witness ==
    /\ expression = "2/3"
    /\ calcResult = Fin(6667, 10000)
    /\ currentMatch # <<>>
    /\ currentMatch[1].fullText = "0.6667"

\* C15: when handleInput has built a Calculator candidate from a value, the expression
\* it evaluated and shows is the part of the value after the last "/cal:"
C15_ExpressionAfterLastCal ==
    (/\ currentMatch # <<>>
     /\ currentMatch[1].shortcutKey = "/cal"
     /\ Includes(value["inp"], "/cal:"))
    => LET v == value["inp"]
           tail == From(v, LastIndexOf(v, "/cal:") + 5)
       IN  /\ expression = tail
           /\ previewElement \in {<<[text |-> tail \o " = " \o ResultToString(calcResult)]>>,
                                  <<[text |-> "# " \o tail \o " = ..."]>>}

\* C16: accepting a Calculator candidate on a value that holds "/cal:" replaces the part
\* from the last "/cal:" to the end by the expansion and keeps all text before it
C16_ReplacesFromLastCal ==
    [][(/\ currentMatch # <<>>
        /\ previewElement # <<>>
        /\ currentMatch[1].shortcutKey = "/cal"
        /\ Includes(value[currentMatch[1].target], "/cal:")
        /\ commits' > 0)
        => LET m == currentMatch[1]
               cur == getValue(State, m.target)
           IN  value'[m.target] =
                   Before(cur, LastIndexOf(cur, "/cal:")) \o finalTextOf(State, m, NoRnd)]_vars

\* the value v ends with a trigger "/key:digits" or "/key" whose key the store does not
\* define, "/lorem" with a count and values with the calculator prefix apart
UnknownTrigger(v, store) ==
    /\ ~Includes(v, "/cal:")
    /\ IF MatchWithCount(v) # <<>>
       THEN LET key == SubSeq(v, MatchWithCount(v)[1], MatchWithCount(v)[2] - 1)
            IN  key \notin DOMAIN store /\ key # "/lorem"
       ELSE /\ MatchWithoutCount(v) # 0
            /\ From(v, MatchWithoutCount(v)) \notin DOMAIN store

\* C17: after handleInput has processed a value that ends with a trigger of an unknown
\* key, there is no candidate and no preview: the session is Idle
C17_UnknownKeyNoCandidate ==
    [][(/\ lastHandledValue' # lastHandledValue
        /\ lastHandledValue' # <<>>
        /\ UnknownTrigger(lastHandledValue'[1], shortcuts'))
        => (currentMatch' = <<>> /\ previewElement' = <<>>)]_vars

\* the positions of the spaces of s
SpacesOf(s) == {k \in 1..Len(s) : Ch(s, k) = " "}

\* the word of s that starts after position p (0, or the position of a space) is the
\* word of the base paragraph that its index asks for, and a space or the end follows it
BaseWordAfter(s, p) ==
    LET i == Cardinality({q \in SpacesOf(s) : q <= p}) + 1
        w == LoremWords[((i - 1) % Len(LoremWords)) + 1]
    IN  /\ SubSeq(s, p + 1, p + Len(w)) = w
        /\ p + Len(w) = Len(s) \/ Ch(s, p + Len(w) + 1) = " "

\* C18: for a count n from 1 to 1000 the filler text of the candidate has exactly n
\* words separated by single spaces, the i-th being word ((i-1) mod L)+1 of the base
\* paragraph; the text is therefore determined by n, and it is the text of the preview
C18_LoremWords ==
    (/\ currentMatch # <<>>
     /\ currentMatch[1].shortcutKey = "/lorem"
     /\ currentMatch[1].count >= 1
     /\ currentMatch[1].count <= LoremMax)
    => LET s == currentMatch[1].fullText
       IN  /\ Cardinality(SpacesOf(s)) = currentMatch[1].count - 1
           /\ \A p \in {0} \cup SpacesOf(s) : BaseWordAfter(s, p)
           /\ previewElement = <<[text |-> s]>>

\* "/lorem:70" has been matched: the 70th word is the first word of the paragraph again
C18_Witness ==
    /\ currentMatch # <<>>
    /\ currentMatch[1].shortcutKey = "/lorem"
    /\ currentMatch[1].count = 70
    /\ From(currentMatch[1].fullText, Len(currentMatch[1].fullText) - 13) = "laborum. Lorem"

\* C19: a "/lorem:N" candidate with N above 1000 has no expansion and shows the warning,
\* and an accept action on it leaves the value of the surface as it was
C19_LimitExceededNotCommitted ==
    [][(/\ currentMatch # <<>>
        /\ currentMatch[1].shortcutKey = "/lorem"
        /\ currentMatch[1].count > LoremMax)
        => /\ currentMatch[1].fullText = ""
           /\ previewElement =
                  <<[text |-> "Error: Maximum 1000 words allowed! You requested "
                                  \o NatToStr(currentMatch[1].count) \o " words."]>>
           /\ (commits' > 0) => (value' = value)]_vars

\* C20: getRandomEmojis(P, N) is a string of exactly N elements, each an element of
\* splitEmojis(P), when N > 0 and splitEmojis(P) is not empty, and the empty string
\* when N <= 0 or P is empty, absent or without emoji
C20_SampleOfPool ==
    (sampled # <<>>)
    => LET elements == splitEmojis(emojiString)
       IN  IF sampleCount > 0 /\ elements # <<>>
           THEN /\ Len(sampled[1]) = sampleCount
                /\ \A i \in 1..sampleCount :
                       \E j \in 1..Len(elements) : elements[j] = Ch(sampled[1], i)
           ELSE sampled[1] = ""

\* three draws from a pool string that holds a letter, an emoji, a space and a digit
C20_Witness ==
    /\ emojiString = "a@ 1"
    /\ sampleCount = 3
    /\ sampled = <<"1@1">>

\* the last index of the emoji grapheme cluster of s that starts with the emoji at i: a
\* skin-tone modifier after the emoji belongs to it, and so does every emoji that a
\* joiner attaches
RECURSIVE ClusterEnd(_, _)
ClusterEnd(s, i) ==
    IF i < Len(s) /\ Ch(s, i + 1) = "~" THEN ClusterEnd(s, i + 1)
    ELSE IF i + 1 < Len(s) /\ Ch(s, i + 1) = "^" /\ Ch(s, i + 2) \in {"@", "&"}
         THEN ClusterEnd(s, i + 2)
    ELSE i

\* the emoji grapheme clusters of s from index i on
RECURSIVE EmojiClusters(_, _)
EmojiClusters(s, i) ==
    IF i > Len(s) THEN <<>>
    ELSE IF Ch(s, i) \in {"@", "&"}
         THEN <<SubSeq(s, i, ClusterEnd(s, i))>> \o EmojiClusters(s, ClusterEnd(s, i) + 1)
    ELSE EmojiClusters(s, i + 1)

\* C21: the elements that splitEmojis returns for the pool of a sampler run are the
\* emoji grapheme clusters of the pool, each cluster whole
C21_SplitByCluster ==
    (sampled # <<>>) => splitEmojis(emojiString) = EmojiClusters(emojiString, 1)

\* the content of the repository's file, none when there is no file
RemoteContent == IF remoteFile = <<>> THEN [key \in {} |-> [text |-> ""]] ELSE remoteFile[1]

\* C27 (merge): mergeShortcuts(R, L) has the keys of R and of L, the definition of L for
\* every key of L and the definition of R for every key of R alone
C27_MergeLocalOverRemote ==
    LET merged == mergeShortcuts(RemoteContent, localShortcuts) IN
    /\ DOMAIN merged = DOMAIN RemoteContent \cup DOMAIN localShortcuts
    /\ \A key \in DOMAIN localShortcuts : merged[key] = localShortcuts[key]
    /\ \A key \in DOMAIN RemoteContent \ DOMAIN localShortcuts :
          merged[key] = RemoteContent[key]

\* C27: local data has priority: the merge is as above, and after a successful sync the
\* returned data, and the content that was pushed, hold for every key of the local set the
\* local definition
C27_LocalPriority ==
    /\ C27_MergeLocalOverRemote
    /\ (syncResult # <<>> /\ syncResult[1].success) =>
          \A key \in DOMAIN localShortcuts :
             /\ key \in DOMAIN syncResult[1].data
             /\ syncResult[1].data[key] = localShortcuts[key]
             /\ syncResult[1].action \in {"created", "synced"} =>
                   /\ key \in DOMAIN RemoteContent
                   /\ RemoteContent[key] = localShortcuts[key]

\* C22: a candidate is held exactly when a preview is shown
C22_CandidateIffPreview ==
    (currentMatch # <<>>) <=> (previewElement # <<>>)

\* the trigger key the matcher reads from the value v
TriggerKey(v) ==
    IF Includes(v, "/cal:") /\ CalMatch(v) # 0 THEN "/cal"
    ELSE IF MatchWithCount(v) # <<>>
         THEN SubSeq(v, MatchWithCount(v)[1], MatchWithCount(v)[2] - 1)
    ELSE IF MatchWithoutCount(v) # 0 THEN From(v, MatchWithoutCount(v))
    ELSE ""

\* the count the matcher reads from the value v, 0 when v gives none
TriggerCount(v) ==
    IF Includes(v, "/cal:") /\ CalMatch(v) # 0 THEN 0
    ELSE IF MatchWithCount(v) # <<>> THEN StrToNat(From(v, MatchWithCount(v)[2] + 1))
    ELSE 0

\* the value v is recognised against the store: it ends with a calculator expression,
\* with "/lorem:N", or with a trigger of a key the store defines
Recognised(v, store) ==
    \/ Includes(v, "/cal:") /\ CalMatch(v) # 0
    \/ TriggerKey(v) = "/lorem" /\ MatchWithCount(v) # <<>>
    \/ TriggerKey(v) \in DOMAIN store

\* the candidate m is the one of surface S and of the value v
CandidateOf(m, S, v) ==
    /\ m # <<>>
    /\ m[1].target = S
    /\ m[1].shortcutKey = TriggerKey(v)
    /\ m[1].count = TriggerCount(v)

\* C23: whenever the value of a surface S is recognised, an input event for S that
\* handleInput processes leaves the candidate of S and of that value, whatever candidate
\* was held before
C23_CandidateOfEventSurface ==
    \A S \in Surfaces : \A rnd \in Tapes :
        Recognised(getValue(State, S), shortcuts) =>
            CandidateOf(handleInput(State, S, rnd).currentMatch, S, getValue(State, S))

\* C24: an input event whose value is not recognised against the store of the moment
\* leaves no candidate and no preview, whatever was held before and whatever the store
\* was when the previous event was handled
C24_UnrecognisedLeavesIdle ==
    \A S \in Surfaces : \A rnd \in Tapes :
        ~Recognised(getValue(State, inputTarget(State, S)), shortcuts) =>
            /\ handleInput(State, S, rnd).currentMatch = <<>>
            /\ handleInput(State, S, rnd).previewElement = <<>>

\* two candidates (or none) are equal in key, count and expansion
SameCandidate(m1, m2) ==
    IF m1 = <<>> \/ m2 = <<>> THEN m1 = m2
    ELSE /\ m1[1].shortcutKey = m2[1].shortcutKey
         /\ m1[1].count = m2[1].count
         /\ m1[1].fullText = m2[1].fullText

\* C25: handleInput run a second time on the same value with the same store gives a
\* candidate equal to the one of the first run, both when the preview of the first run
\* is still showing and when it has been removed in between
C25_MatchIdempotent ==
    \A S \in Surfaces : \A r1 \in Tapes, r2 \in Tapes :
        Recognised(getValue(State, S), shortcuts) =>
            /\ SameCandidate(handleInput(State, S, r1).currentMatch,
                             handleInput(handleInput(State, S, r1), S, r2).currentMatch)
            /\ SameCandidate(handleInput(State, S, r1).currentMatch,
                             handleInput(removePreview(handleInput(State, S, r1)), S, r2)
                                 .currentMatch)

RECURSIVE pollTicks(_, _, _)
\* n consecutive ticks of the poll interval with no other event between them
pollTicks(s, n, rnd) ==
    IF n = 0 THEN s ELSE pollTicks(pollTick(s, rnd), n - 1, rnd)

\* C26: once the poll has gone over every editable surface, one tick per surface, a
\* further tick with all surfaces and values unchanged changes neither the candidate nor
\* the preview
C26_PollIdempotent ==
    \A rnd \in Tapes :
        /\ pollTicks(State, Cardinality(Surfaces) + 1, rnd).currentMatch
               = pollTicks(State, Cardinality(Surfaces), rnd).currentMatch
        /\ pollTicks(State, Cardinality(Surfaces) + 1, rnd).previewElement
               = pollTicks(State, Cardinality(Surfaces), rnd).previewElement

\* C29: while the preview of a Static candidate with a count above 0 and a pool of at
\* least two different emoji is shown, the text it displays is the text that
\* replaceShortcut inserts on an accept
C29_PreviewShowsInsertedText ==
    (/\ currentMatch # <<>>
     /\ previewElement # <<>>
     /\ currentMatch[1].shortcutKey \notin {"/cal", "/lorem"}
     /\ HasShortcut(shortcuts, currentMatch[1].shortcutKey)
     /\ currentMatch[1].count > 0
     /\ LET pool == splitEmojis(shortcuts[currentMatch[1].shortcutKey].emojis)
        IN  Cardinality({pool[j] : j \in 1..Len(pool)}) >= 2)
    => \A rnd \in Tapes :
           previewElement[1].text = finalTextOf(State, currentMatch[1], rnd)

\* C30: when the candidate of the focused surface, the only surface with content, is
\* cancelled with an Escape keydown, neither the keyup scan that follows nor a tick of
\* the poll brings back a candidate or a preview while the value is unchanged
C30_CancelledStaysIdle ==
    (/\ active \in Surfaces
     /\ currentMatch # <<>>
     /\ previewElement # <<>>
     /\ currentMatch[1].target = active
     /\ lastHandledValue = <<getValue(State, active)>>
     /\ \A el \in Surfaces \ {active} : value[el] = "")
    => \A rnd \in Tapes :
          LET cancelled == deliverKeydown(State, "Escape", active, 1, 1, rnd)
          IN  /\ cancelled.currentMatch = <<>>
              /\ cancelled.previewElement = <<>>
              /\ handleInput(cancelled, active, rnd).currentMatch = <<>>
              /\ handleInput(cancelled, active, rnd).previewElement = <<>>
              /\ pollTick(cancelled, rnd).currentMatch = <<>>
              /\ pollTick(cancelled, rnd).previewElement = <<>>

\* the instance with no preview, no candidate and no value handled yet
FreshState ==
    [State EXCEPT !.previewElement = <<>>, !.currentMatch = <<>>, !.lastHandledValue = <<>>]

\* the setTimeout callback finds an expression in v and calculate gives a result for it
TimeoutEvaluates(v) ==
    /\ CalOperatorMatch(v) # 0
    /\ calculate(Trim(From(v, CalOperatorMatch(v) + 5))).k # "null"

\* C31: when the deferred callback of an operator keydown runs and evaluates the value
\* of the text field, the candidate it leaves has the expansion of the candidate that
\* handleInput produces for this value, and the expression starts at the same "/cal:"
C31_DeferredSameAsInput ==
    [][(/\ timers'["inp"] < timers["inp"]
        /\ TimeoutEvaluates(getValue(State, "inp")))
       => /\ SameCandidate(currentMatch',
                           handleInput(FreshState, "inp", NoRnd).currentMatch)
          /\ currentMatch'[1].target
                 = handleInput(FreshState, "inp", NoRnd).currentMatch[1].target
          /\ CalOperatorMatch(getValue(State, "inp")) = CalMatch(getValue(State, "inp"))]_vars

\* C32: an accept of a pending Static candidate whose key the store no longer defines
\* changes no value and no caret, dispatches no event to the page, and leaves no candidate
\* and no preview
C32_RemovedDefinitionNoOp ==
    [][(/\ currentMatch # <<>>
        /\ previewElement # <<>>
        /\ currentMatch[1].shortcutKey \notin {"/cal", "/lorem"}
        /\ ~HasShortcut(shortcuts, currentMatch[1].shortcutKey)
        /\ commits' > 0)
       => (/\ value' = value
           /\ caret' = caret
           /\ inputEvents' = 0
           /\ changeEvents' = 0
           /\ currentMatch' = <<>>
           /\ previewElement' = <<>>)]_vars

\* replaceShortcut has run for the candidate of "/ty" after the store lost the key: the
\* typed trigger is still in the text field and the session is Idle
C32_Witness ==
    /\ commits = 1
    /\ ~HasShortcut(shortcuts, "/ty")
    /\ value = [el \in Surfaces |-> IF el = "inp" THEN "/ty" ELSE ""]
    /\ lastHandledValue = <<"/ty">>
    /\ currentMatch = <<>>
    /\ previewElement = <<>>

\* the session is Idle in s: no candidate and no preview
IsIdle(s) == s.currentMatch = <<>> /\ s.previewElement = <<>>

\* the value v holds no "/cal:" and ends with "/key" for a key the store defines
EndsWithDefinedKey(v, store) ==
    /\ ~Includes(v, "/cal:")
    /\ MatchWithoutCount(v) # 0
    /\ From(v, MatchWithoutCount(v)) \in DOMAIN store

\* the state after a click on the body of the document
AfterClickOutside(s) == handleClick([s EXCEPT !.active = "body"], FALSE, FALSE, 1, NoRnd)

\* the state after the user types v into the text field and the input event is handled
AfterTyping(s, v) ==
    handleInput([s EXCEPT !.value["inp"] = v, !.caret["inp"] = Len(v), !.active = "inp"],
                "inp", NoRnd)

\* Idle can be reached from the present state: by a click outside the preview, or by
\* typing a value, its input event, and then a click outside the preview
CanReturnToIdle ==
    \/ IsIdle(AfterClickOutside(State))
    \/ \E v \in TypedInp : IsIdle(AfterClickOutside(AfterTyping(State, v)))

\* C33: Idle can be reached from every state, and in Idle an input event on a surface
\* whose value holds no "/cal:" and ends with a defined key leaves a Static candidate of
\* that key and that surface with its preview shown
C33_SessionReusable ==
    /\ CanReturnToIdle
    /\ IsIdle(State) =>
          \A S \in Surfaces : \A rnd \in Tapes :
              EndsWithDefinedKey(getValue(State, S), shortcuts) =>
                  LET after == handleInput(State, S, rnd)
                  IN  /\ after.previewElement # <<>>
                      /\ after.currentMatch # <<>>
                      /\ after.currentMatch[1].target = S
                      /\ after.currentMatch[1].shortcutKey
                             = From(getValue(State, S), MatchWithoutCount(getValue(State, S)))
                      /\ after.currentMatch[1].fullText
                             = shortcuts[after.currentMatch[1].shortcutKey].text

\* the text field once held "/lorem:0", which only the commit of "/go" writes into it
\* (the poll saw it there); "/go" has been typed again and the session is Pending with
\* its Static candidate
C33_Witness ==
    /\ lastPolledElement = "inp"
    /\ lastPolledValue = "/lorem:0"
    /\ value["inp"] = "/go"
    /\ lastHandledValue = <<"/go">>
    /\ previewElement # <<>>
    /\ currentMatch # <<>>
    /\ currentMatch[1].target = "inp"
    /\ currentMatch[1].shortcutKey = "/go"

\* text and emojis of a definition, a missing emojis field read as the empty string
TextAndEmojis(definition) ==
    <<definition.text, IF "emojis" \in DOMAIN definition THEN definition.emojis ELSE "">>

\* two sets of shortcuts that do not differ: same keys, same text and emojis per key
SameShortcuts(left, right) ==
    /\ DOMAIN left = DOMAIN right
    /\ \A key \in DOMAIN left : TextAndEmojis(left[key]) = TextAndEmojis(right[key])

\* the sync in flight has returned to its caller with success
SyncSucceeded == job.pc = "write" /\ syncResult[1].success

\* C34: a successful sync(local) is one of three outcomes.  With no remote file it pushed
\* `local` without a sha and returns `created` with data = local; with a remote file that
\* does not differ from local, or from the merge, it pushed nothing and returns
\* `no_changes` with data = remote; otherwise it pushed the merge with the pulled sha and
\* returns `synced` with data = merge.
C34_SyncOutcomes ==
    SyncSucceeded =>
        IF job.sha = <<>>
        THEN /\ syncResult[1].action = "created"
             /\ syncResult[1].data = localShortcuts
             /\ lastPush = <<[content |-> localShortcuts, sha |-> <<>>]>>
        ELSE IF \/ SameShortcuts(job.sha[1], localShortcuts)
                \/ SameShortcuts(mergeShortcuts(job.sha[1], localShortcuts), job.sha[1])
        THEN /\ syncResult[1].action = "no_changes"
             /\ syncResult[1].data = job.sha[1]
             /\ lastPush = <<>>
        ELSE /\ syncResult[1].action = "synced"
             /\ syncResult[1].data = mergeShortcuts(job.sha[1], localShortcuts)
             /\ lastPush = <<[content |-> mergeShortcuts(job.sha[1], localShortcuts),
                              sha |-> job.sha]>>

\* a sync that pushed the merge of a remote file and a local store, each with a key the
\* other does not have
C34_Witness ==
    /\ SyncSucceeded
    /\ syncResult[1].action = "synced"
    /\ DOMAIN job.sha[1] \ DOMAIN localShortcuts # {}
    /\ DOMAIN localShortcuts \ DOMAIN job.sha[1] # {}
    /\ lastPush # <<>>

\* the sync in flight has returned to its caller without success
SyncFailed == job.pc = "write" /\ ~syncResult[1].success

\* C35: a pull or a push that fails, by the network or by a sha that is no longer the one
\* of the file, makes sync() resolve to success = false with action `failed`, and the
\* caller of a failed sync leaves the stored shortcuts and syncSettings as they are.
C35_FailedSyncChangesNothing ==
    [][/\ (\/ PullResolves(FALSE)
           \/ PushResolves(FALSE)
           \/ (job.pc = "push" /\ remoteFile # job.sha /\ job'.pc = "write"))
          => (/\ syncResult' = <<[success |-> FALSE, action |-> "failed"]>>
              /\ job'.pc = "write"
              /\ remoteFile' = remoteFile)
       /\ (SyncFailed /\ job'.pc = "idle")
          => (/\ storedShortcuts' = storedShortcuts
              /\ syncSettings' = syncSettings
              /\ autoTimers' = autoTimers)]_vars

\* performSync is about to return from a sync whose push failed while the stored
\* shortcuts differ from what it wanted to push
C35_Witness ==
    /\ SyncFailed
    /\ job.fn = "performSync"
    /\ lastPush # <<>>
    /\ lastPush[1].content # shortcutsOrEmpty(storedShortcuts)
    /\ syncSettings[1].lastSync = 0

\* the keys saved to the local store since the sync in flight read it
SavedInFlight ==
    {key \in DOMAIN shortcutsOrEmpty(storedShortcuts) :
        \/ key \notin DOMAIN localShortcuts
        \/ localShortcuts[key] # shortcutsOrEmpty(storedShortcuts)[key]}

\* C36: a shortcut saved to the local store while a background sync is in flight, after
\* the sync read the local shortcuts and before it writes its result back, is still in
\* the local store when that sync completes.
C36_SavedInFlightKept ==
    [][(job.pc = "write" /\ job'.pc = "idle")
       => \A key \in SavedInFlight : key \in DOMAIN shortcutsOrEmpty(storedShortcuts')]_vars

\* C37: a shortcut the user deleted from the local store only, and did not save again,
\* stays absent from the local store whatever syncs follow.
C37_DeletedStaysAbsent ==
    \A key \in deletedKeys : key \notin DOMAIN shortcutsOrEmpty(storedShortcuts)

\* no sync in flight and no callback of the onChanged listener pending
Quiescent == job.pc = "idle" /\ autoTimers = 0

C39_InstallKeepsUserData ==
    [][/\ (installing = <<>> /\ installing' # <<>>)
          => (/\ installing'[1].shortcuts <=> (storedShortcuts = <<>>)
              /\ installing'[1].syncSettings <=> (syncSettings = <<>>)
              /\ storedShortcuts' = storedShortcuts
              /\ syncSettings' = syncSettings)
       /\ (installing # <<>> /\ installing' = <<>>)
          => (/\ storedShortcuts' =
                    IF installing[1].shortcuts THEN <<EmptyStore>> ELSE storedShortcuts
              /\ syncSettings' =
                    IF installing[1].syncSettings
                    THEN <<[enabled |-> FALSE, autoSync |-> FALSE, lastSync |-> 0]>>
                    ELSE syncSettings)]_vars

\* the handler has read a storage that holds shortcuts of the user but no syncSettings
C39_Witness ==
    /\ installing = <<[shortcuts |-> FALSE, syncSettings |-> TRUE]>>
    /\ storedShortcuts # <<>>
    /\ DOMAIN storedShortcuts[1] = SyncKeys
    /\ syncSettings = <<>>

====
